---- MODULE Spec2Model ----
(***************************************************************************)
(* Model of capacitor-inline-pdf: the Android InlinePDFView (global pinch  *)
(* zoom, page adapter, bitmap cache), the web fallback InlinePDFWeb and    *)
(* the iOS InlinePDFViewController.                                        *)
(*                                                                         *)
(* Floats are fixed-point integers in thousandths (ScaleUnit = 1.0f).      *)
(* Android framework classes the code calls into (RecyclerView's           *)
(* OnItemTouchListener dispatch, ScaleGestureDetector, PdfRenderer) are    *)
(* modelled by their documented contract next to the call sites.           *)
(***************************************************************************)
EXTENDS Integers, Sequences, FiniteSets, TLC

\* ---------------------------------------------------------------- bounds
MaxFingers == 2      \* pointers the environment puts down at once
MaxMoves == 2        \* scale deltas consumed by onScale within one pinch
NumHolders == 2      \* view holders the RecyclerView keeps
MaxLoads == 2        \* PdfRenderer objects created per viewer
CacheDocPages == 6   \* pages of the document behind the cache scenarios
RenderDocPages == 2  \* pages of the largest document behind the render scenarios
MaxTasks == 2        \* render coroutines in flight at once
MaxOverlays == 4     \* overlay containers created per viewer
NavPages == 3        \* pages of the largest document behind the navigation scenarios

\* ------------------------------------------------------- program constants
ScaleUnit == 1000          \* 1.0f
MinScale == 500            \* coerceIn(0.5f, ..)
MaxScale == 4000           \* coerceIn(.., 4.0f)
ZoomThreshold == 10        \* abs(newScaleFactor - scaleFactor) > 0.01f
CacheLimit == 5            \* if (bitmapCache.size >= 5)
CacheKeep == 3             \* keys.take(bitmapCache.size - 3)
TableSize == 16            \* buckets of a default ConcurrentHashMap
NO_POSITION == -1          \* RecyclerView.NO_POSITION
IosMinScale == 500         \* pdfView.minScaleFactor = 0.5
IosMaxScale == 5000        \* pdfView.maxScaleFactor = 5.0

\* detector.scaleFactor values the environment produces, as <<num, den>>
ScaleDeltas == {<<1, 2>>, <<251, 250>>, <<2, 1>>}

NoZoom == 0                \* no zoomChanged event emitted yet

VARIABLES
    \* InlinePDFView fields
    scaleFactor, baseScaleFactor, isScaling, pointerCount,
    scaleX,            \* recyclerView.scaleX == recyclerView.scaleY
    resetPosted,       \* a recyclerView.post { scaleX = 1 } runnable is queued
    \* Android framework state
    inProgress,        \* ScaleGestureDetector.mInProgress
    intercepting,      \* RecyclerView.mInterceptingOnItemTouchListener != null
    fingers,           \* pointers currently down
    \* InlinePDFView document state
    pdfRenderer,       \* 0 (null) or an index into handles
    pdfAdapter,        \* 0 (null) or an index into adapters; also recyclerView.adapter
    totalPages, currentPageIndex, lastNotifiedPageIndex, isLoading,
    handles,           \* the PdfRenderer objects created so far
    adapters,          \* the PDFPageAdapter objects created so far
    holderPos,         \* PDFPageViewHolder.adapterPosition
    holderImage,       \* the bitmap set on the holder's imageView
    tasks,             \* render coroutines launched by onBindViewHolder
    destroyed,         \* cleanup() has run and the view left its parent
    registered,        \* the viewerId is a key of InlinePDFPlugin.pdfViews
    \* the other implementations of the plugin
    platform,          \* which implementation this run is about
    web,               \* InlinePDFWeb: the entry of one viewerId in viewers
    ios,               \* iOS: the InlinePDFViewController of one viewerId
    \* observation
    emitted,           \* events notified by the last handler
    lastZoom,          \* payload of the last zoomChanged event
    lastCall,          \* the bridge call made by the last step, else NoCall
    putLog,            \* the distinct pages put into a cache since it was last empty
    pinchRatio, pinchMoves, pinchEnded,
    \* further parts of the Android viewer
    downloads,         \* loadFromUrl coroutines whose download has not finished
    lastRequested,     \* the document named by the latest loadPDF call
    pageView,          \* the ZoomableImageView of one page and its touch stream
    raster,            \* the bitmap dimensions renderPage computed last
    overlay            \* the overlay container, its views and hide animations

gestureVars == <<scaleFactor, baseScaleFactor, isScaling, pointerCount, scaleX,
                 resetPosted, inProgress, intercepting, fingers>>
documentVars == <<pdfRenderer, pdfAdapter, totalPages, currentPageIndex,
                  lastNotifiedPageIndex, isLoading, handles>>
renderVars == <<adapters, holderPos, holderImage, tasks>>
pinchVars == <<lastZoom, pinchRatio, pinchMoves, pinchEnded>>
peerVars == <<platform, web, ios>>
extraVars == <<downloads, lastRequested, pageView, raster, overlay>>
androidVars == <<gestureVars, documentVars, renderVars, destroyed, registered,
                 putLog, pinchVars, extraVars>>

vars == <<gestureVars, documentVars, renderVars, destroyed, registered,
          emitted, lastCall, putLog, pinchVars, peerVars, extraVars>>

\* ------------------------------------------------------------ arithmetic
Abs(x) == IF x < 0 THEN -x ELSE x

coerceIn(x, lo, hi) == IF x < lo THEN lo ELSE IF x > hi THEN hi ELSE x

\* Float product scaleFactor * detector.scaleFactor
MulDelta(s, d) == (s * d[1]) \div d[2]

\* Float quotient scaleFactor / baseScaleFactor
DivScale(a, b) == (a * ScaleUnit) \div b

\* ------------------------------------------------- InlinePDFView gestures
\* Handlers run sequentially over a record of the fields they touch.
\* began / scaled / ended record which ScaleListener callbacks ran during
\* the current touch event; ret is the callback's return value.
GestureFields ==
    [scaleFactor |-> scaleFactor, baseScaleFactor |-> baseScaleFactor,
     isScaling |-> isScaling, pointerCount |-> pointerCount,
     scaleX |-> scaleX, resetPosted |-> resetPosted,
     inProgress |-> inProgress, out |-> <<>>, ret |-> FALSE,
     began |-> FALSE, scaled |-> FALSE, ended |-> FALSE]

\* onScaleBegin that notifies gestureStart before it checks the pointers
onScaleBeginNotifiesFirst(v) ==
    IF v.pointerCount < 2
    THEN [v EXCEPT !.out = Append(@, <<"gestureStart">>), !.ret = FALSE]
    ELSE [v EXCEPT !.isScaling = TRUE,
                   !.baseScaleFactor = v.scaleFactor,
                   !.out = Append(@, <<"gestureStart">>),
                   !.began = TRUE,
                   !.ret = TRUE]

\* ScaleListener.onScaleBegin
onScaleBegin(v) ==
    IF v.pointerCount < 2
    THEN [v EXCEPT !.ret = FALSE]
    ELSE [v EXCEPT !.isScaling = TRUE,
                   !.baseScaleFactor = v.scaleFactor,
                   !.out = Append(@, <<"gestureStart">>),
                   !.began = TRUE,
                   !.ret = TRUE]

\* onScale with the coerceIn dropped
onScaleUnclamped(v, d) ==
    IF v.pointerCount < 2
    THEN [v EXCEPT !.ret = FALSE]
    ELSE LET newScaleFactor == MulDelta(v.scaleFactor, d)
         IN IF Abs(newScaleFactor - v.scaleFactor) > ZoomThreshold
            THEN [v EXCEPT !.scaleFactor = newScaleFactor,
                           !.scaleX = DivScale(newScaleFactor, v.baseScaleFactor),
                           !.out = Append(@, <<"zoomChanged", newScaleFactor>>),
                           !.scaled = TRUE,
                           !.ret = TRUE]
            ELSE [v EXCEPT !.scaled = TRUE, !.ret = TRUE]

\* ScaleListener.onScale; d is detector.scaleFactor
onScale(v, d) ==
    IF v.pointerCount < 2
    THEN [v EXCEPT !.ret = FALSE]
    ELSE LET newScaleFactor ==
                 coerceIn(MulDelta(v.scaleFactor, d), MinScale, MaxScale)
         IN IF Abs(newScaleFactor - v.scaleFactor) > ZoomThreshold
            THEN [v EXCEPT !.scaleFactor = newScaleFactor,
                           !.scaleX = DivScale(newScaleFactor, v.baseScaleFactor),
                           !.out = Append(@, <<"zoomChanged", newScaleFactor>>),
                           !.scaled = TRUE,
                           !.ret = TRUE]
            ELSE [v EXCEPT !.scaled = TRUE, !.ret = TRUE]

\* onScaleEnd without recyclerView.scaleX = 1.0f
onScaleEndKeepsTransform(v) ==
    [v EXCEPT !.isScaling = FALSE,
              !.pointerCount = 0,
              !.out = Append(@, <<"gestureEnd">>),
              !.ended = TRUE]

\* ScaleListener.onScaleEnd (pdfAdapter?.updateZoom is applied by the
\* action from the ended flag, before gestureEnd is delivered)
onScaleEnd(v) ==
    [v EXCEPT !.isScaling = FALSE,
              !.pointerCount = 0,
              !.scaleX = ScaleUnit,
              !.out = Append(@, <<"gestureEnd">>),
              !.ended = TRUE]

\* android.view.ScaleGestureDetector.onTouchEvent, called at lines 155/161,
\* in the four steps it takes; each step works on the result of the one
\* before it.
\* spanOk: the span of the pointers still down is >= the minimum span;
\* slop: the span moved more than the touch slop from its initial value.
StreamComplete(action) == action \in {"UP", "CANCEL"}

ConfigChanged(action) == action \in {"DOWN", "POINTER_UP", "POINTER_DOWN"}

\* A DOWN, UP or CANCEL ends a gesture in progress
DetectorReset(v, action) ==
    IF (action = "DOWN" \/ StreamComplete(action)) /\ v.inProgress
    THEN [onScaleEnd(v) EXCEPT !.inProgress = FALSE]
    ELSE v

\* A pointer going down or up, or a span below the minimum, ends it too
DetectorEnd(v, action, spanOk) ==
    IF v.inProgress /\ (~spanOk \/ ConfigChanged(action))
    THEN [onScaleEnd(v) EXCEPT !.inProgress = FALSE]
    ELSE v

\* mInProgress = mListener.onScaleBegin(this)
DetectorSetInProgress(b) == [b EXCEPT !.inProgress = b.ret]

\* A gesture begins once the span is wide enough and either one was in
\* progress when this event arrived or the span left the touch slop
DetectorBegin(v, wasInProgress, action, spanOk, slop) ==
    IF ~v.inProgress /\ spanOk
       /\ (wasInProgress \/ (slop /\ ~ConfigChanged(action)))
    THEN DetectorSetInProgress(onScaleBegin(v))
    ELSE v

\* A MOVE during a gesture calls onScale. The event that begins the
\* gesture reports scaleFactor 1 (its previous span was just set to the
\* current one); continuing: the gesture was in progress before this step
DetectorScale(v, continuing, action, d) ==
    IF action = "MOVE" /\ v.inProgress
    THEN onScale(v, IF continuing THEN d ELSE <<1, 1>>)
    ELSE v

DetectorAfterEnd(v, wasInProgress, action, spanOk, slop, d) ==
    DetectorScale(DetectorBegin(v, wasInProgress, action, spanOk, slop),
                  v.inProgress, action, d)

DetectorAfterReset(v, action, spanOk, slop, d) ==
    IF StreamComplete(action)
    THEN v
    ELSE DetectorAfterEnd(DetectorEnd(v, action, spanOk), v.inProgress,
                          action, spanOk, slop, d)

DetectorOnTouchEvent(v, action, spanOk, slop, d) ==
    DetectorAfterReset(DetectorReset(v, action), action, spanOk, slop, d)

\* SimpleOnItemTouchListener.onInterceptTouchEvent; count is e.pointerCount
onInterceptTouchEvent(v, action, count, spanOk, slop, d) ==
    LET v1 == CASE action = "POINTER_DOWN" ->
                     [v EXCEPT !.pointerCount = count,
                               !.isScaling = IF count >= 2 THEN TRUE ELSE @]
                [] action = "POINTER_UP" ->
                     [v EXCEPT !.pointerCount = count - 1,
                               !.resetPosted = IF count - 1 < 2 THEN TRUE ELSE @]
                [] action \in {"UP", "CANCEL"} ->
                     [v EXCEPT !.pointerCount = 0,
                               !.isScaling = FALSE,
                               !.resetPosted = TRUE]
                [] OTHER -> v
        v2 == DetectorOnTouchEvent(v1, action, spanOk, slop, d)
    IN [v2 EXCEPT !.ret = (v2.pointerCount >= 2 \/ v2.isScaling)]

\* SimpleOnItemTouchListener.onTouchEvent
onTouchEvent(v, action, spanOk, slop, d) ==
    DetectorOnTouchEvent(v, action, spanOk, slop, d)

\* RecyclerView's dispatch to its OnItemTouchListener: onInterceptTouchEvent
\* sees every event until it returns true; from then on the listener's
\* onTouchEvent receives the rest of the gesture, up to UP or CANCEL.
\* A new gesture (DOWN) always starts with onInterceptTouchEvent.
DispatchToListener(action, count, spanOk, slop, d) ==
    IF intercepting /\ action # "DOWN"
    THEN [onTouchEvent(GestureFields, action, spanOk, slop, d)
             EXCEPT !.ret = action \notin {"UP", "CANCEL"}]
    ELSE LET r == onInterceptTouchEvent(GestureFields, action, count,
                                        spanOk, slop, d)
         IN [r EXCEPT !.ret = r.ret /\ action # "CANCEL"]

\* ------------------------------------------------------ PDFPageAdapter
\* A bitmap is known by the page it shows and the scale it was rendered at.
NoBitmap == [page |-> NO_POSITION, scale |-> 0]

\* bitmapCache is held as the set of its entries; a bitmap carries its key
EmptyCache == {}

CacheKeys(cache) == {b.page : b \in cache}

\* bitmapCache[position]
CacheGet(cache, position) ==
    IF position \in CacheKeys(cache)
    THEN CHOOSE b \in cache : b.page = position
    ELSE NoBitmap

\* ConcurrentHashMap<Int, Bitmap> iterates its table bucket by bucket; an
\* Int key below 65536 sits in bucket key mod table size, and the table
\* never grows with at most CacheLimit entries. Page indexes stay below
\* TableSize here, so no two keys share a bucket.
Bucket(key) == key % TableSize

\* Number of keys that bitmapCache.keys yields before key k
KeysBefore(cache, k) ==
    Cardinality({j \in CacheKeys(cache) :
        \/ Bucket(j) < Bucket(k)
        \/ Bucket(j) = Bucket(k) /\ j < k})

\* keys.take(n) evicting every entry
keysToRemoveAll(cache, n) == CacheKeys(cache)

\* bitmapCache.keys.take(n)
keysToRemove(cache, n) ==
    {k \in CacheKeys(cache) : KeysBefore(cache, k) < n}

\* the size check written as size > 5
cacheIsFullLate(cache) == Cardinality(cache) > CacheLimit

\* if (bitmapCache.size >= 5)
cacheIsFull(cache) == Cardinality(cache) >= CacheLimit

\* keysToRemove.forEach { bitmapCache.remove(it) }
CacheRemove(cache, keys) == {b \in cache : b.page \notin keys}

\* bitmapCache[position] = bitmap
CachePut(cache, bitmap) ==
    {b \in cache : b.page # bitmap.page} \cup {bitmap}

\* updateZoom that clears the cache and keeps the adapter's scale
updateZoomKeepsScale(adapter, newZoom) ==
    [adapter EXCEPT !.bitmapCache = EmptyCache]

\* PDFPageAdapter.updateZoom: new scale, bitmapCache.clear()
updateZoom(adapter, newZoom) ==
    [adapter EXCEPT !.scaleFactor = newZoom, !.bitmapCache = EmptyCache]

\* The position the holder had when the render was launched, in place of
\* holder.adapterPosition
AdapterPositionAtLaunch(t) == t.position

\* holder.adapterPosition as a render coroutine sees it: holders of a
\* replaced or detached adapter report NO_POSITION
AdapterPositionOf(t) ==
    IF t.adapter = pdfAdapter THEN holderPos[t.holder] ELSE NO_POSITION

\* synchronized(pdfRenderer) is held by a coroutine inside renderPage
LockHeld(a) ==
    \E t \in tasks : /\ t.adapter = a
                     /\ t.stage \in {"opened", "rendered", "evicting", "inserting"}

\* InlinePDFView.getState
PDFState(cpi, tp, sf, il) ==
    [currentPage |-> cpi + 1, totalPages |-> tp, zoom |-> sf, isLoading |-> il]

getState == PDFState(currentPageIndex, totalPages, scaleFactor, isLoading)

\* ------------------------------------------------------------- Android
Holders == 1..NumHolders

SeqRange(q) == {q[i] : i \in DOMAIN q}

\* putLog.pages once a page was put twice or more than CacheLimit + 1 were put
Untracked == <<NO_POSITION>>
NoPut == [adapter |-> 0, pages |-> <<>>]

\* putLog after bitmapCache[position] = bitmap on adapter a
LogPut(log, a, position) ==
    IF log.adapter # a THEN log
    ELSE IF log.pages = Untracked \/ position \in SeqRange(log.pages)
            \/ Len(log.pages) > CacheLimit
    THEN [log EXCEPT !.pages = Untracked]
    ELSE [log EXCEPT !.pages = Append(@, position)]

\* A bridge call as the caller sees it: its page argument (0 when it has
\* none), whether the viewerId was known, getState before and right after
\* the call, whether it resolved and the events it emitted
Call(op, page, viewer, pre, post, resolved, events) ==
    [op |-> op, page |-> page, viewer |-> viewer, pre |-> pre, post |-> post,
     resolved |-> resolved, events |-> events]

\* getState of a viewerId the plugin does not know
NoViewerState == [currentPage |-> 0, totalPages |-> 0, zoom |-> 0,
                  isLoading |-> FALSE]

NoCall == Call("none", 0, FALSE, NoViewerState, NoViewerState, TRUE, <<>>)

NoWebViewer == [exists |-> FALSE, state |-> NoViewerState]

NoIosViewer == [exists |-> FALSE, pageCount |-> 0, currentPage |-> 0,
                scaleFactor |-> ScaleUnit, isLoading |-> TRUE,
                initialScale |-> ScaleUnit, loads |-> {}]

Platforms == {"android", "web", "ios"}

\* ZoomableImageView: sizes and touch points.
\* Pixel sizes stay whole numbers; scale is in thousandths like scaleFactor.
ViewWidth == 100           \* width of the page view
ViewHeight == 100          \* height of the page view
SCROLL_THRESHOLD == 10     \* pixels to determine scroll direction

\* drawable == null
NoDrawable == <<0, 0>>

\* intrinsic sizes of the bitmaps a page view gets: one that fits the view,
\* one wider and one taller than it
Bitmaps == {<<ViewWidth, ViewHeight>>, <<ViewWidth + 50, ViewHeight>>,
            <<ViewWidth, ViewHeight + 50>>}

\* event.x, event.y of the touch events
Points == {<<x, y>> : x \in {0, 20}, y \in {0, 8, 30}}

\* A ZoomableImageView as onCreateViewHolder configures it (zoomEnabled =
\* false), attached and laid out. disallow: the argument of the last
\* parent.requestDisallowInterceptTouchEvent; handled, translated: what
\* handleTouch returned and whether it moved the matrix on the last event;
\* pointers: the pointers of the gesture this view is the touch target of;
\* doubleTap: the last event was the ACTION_DOWN that completes a double-tap.
NewPageView ==
    [scale |-> ScaleUnit, minScale |-> ScaleUnit, zoomEnabled |-> FALSE,
     panEnabled |-> TRUE, mode |-> "NONE", scrollDirection |-> "NONE",
     last |-> <<0, 0>>, start |-> <<0, 0>>, transX |-> 0, transY |-> 0,
     drawable |-> NoDrawable, disallow |-> FALSE, handled |-> FALSE,
     translated |-> FALSE, pointers |-> 0, event |-> "NONE",
     doubleTap |-> FALSE]

\* No loadPDF call named a document yet
NoDocument == 0

\* renderPage computed no bitmap size yet
NoRaster == [pageWidth |-> 0, pageHeight |-> 0, scaleFactor |-> 0,
             initialScale |-> 0, width |-> 0, height |-> 0]

\* No overlay was shown yet: overlayContainer is null, no overlay container
\* is a child of the viewer, no hide animation runs
NoOverlay == [container |-> 0, attached |-> {}, ending |-> {},
              created |-> 0, position |-> "bottom"]

\* An Android viewer right after create; no web or iOS viewer yet
InitViewer ==
    /\ scaleFactor = ScaleUnit /\ baseScaleFactor = ScaleUnit
    /\ isScaling = FALSE /\ pointerCount = 0
    /\ scaleX = ScaleUnit /\ resetPosted = FALSE
    /\ inProgress = FALSE /\ intercepting = FALSE /\ fingers = 0
    /\ pdfRenderer = 0 /\ pdfAdapter = 0
    /\ totalPages = 0 /\ currentPageIndex = 0 /\ lastNotifiedPageIndex = -1
    /\ isLoading = TRUE
    /\ handles = <<>> /\ adapters = <<>>
    /\ holderPos = [h \in Holders |-> NO_POSITION]
    /\ holderImage = [h \in Holders |-> NoBitmap]
    /\ tasks = {}
    /\ destroyed = FALSE /\ registered = TRUE
    /\ emitted = <<>> /\ lastZoom = NoZoom
    /\ lastCall = NoCall /\ putLog = NoPut
    /\ pinchRatio = <<1, 1>> /\ pinchMoves = 0 /\ pinchEnded = FALSE
    /\ web = NoWebViewer /\ ios = NoIosViewer
    /\ downloads = {} /\ lastRequested = NoDocument
    /\ pageView = NewPageView /\ raster = NoRaster
    /\ overlay = NoOverlay

InitAndroid == platform = "android" /\ InitViewer

InitNav == platform \in Platforms /\ InitViewer

\* The payload of the last zoomChanged among the events out, else z
LastZoomIn(out, z) ==
    IF \E i \in DOMAIN out : out[i][1] = "zoomChanged"
    THEN out[CHOOSE i \in DOMAIN out :
                /\ out[i][1] = "zoomChanged"
                /\ \A j \in DOMAIN out : out[j][1] = "zoomChanged" => j <= i][2]
    ELSE z

\* The effect of one dispatched MotionEvent on the viewer; r: the listener's
\* fields, events and verdict after it handled the event; view: the page
\* view under the finger after the RecyclerView dispatched the event
DeliverWith(r, fingersNext, d, view) ==
    LET moves == IF r.began THEN 0 ELSE pinchMoves
        ratio == IF r.began THEN <<1, 1>> ELSE pinchRatio
        consumed == r.scaled /\ ~r.began
    IN /\ ~destroyed
       /\ consumed => moves < MaxMoves
       /\ scaleFactor' = r.scaleFactor
       /\ baseScaleFactor' = r.baseScaleFactor
       /\ isScaling' = r.isScaling
       /\ pointerCount' = r.pointerCount
       /\ scaleX' = r.scaleX
       /\ resetPosted' = r.resetPosted
       /\ inProgress' = r.inProgress
       /\ intercepting' = r.ret
       /\ fingers' = fingersNext
       /\ emitted' = r.out
       /\ lastZoom' = LastZoomIn(r.out, lastZoom)
       /\ pinchMoves' = IF consumed THEN moves + 1 ELSE moves
       /\ pinchRatio' = IF consumed THEN <<ratio[1] * d[1], ratio[2] * d[2]>>
                        ELSE ratio
       /\ pinchEnded' = IF r.began THEN FALSE
                        ELSE IF r.ended THEN TRUE ELSE pinchEnded
       \* onScaleEnd: pdfAdapter?.updateZoom(scaleFactor), notifyDataSetChanged
       /\ IF r.ended /\ pdfAdapter # 0
          THEN /\ adapters' = [adapters EXCEPT
                                 ![pdfAdapter] = updateZoom(@, r.scaleFactor)]
               /\ holderPos' = [h \in Holders |-> NO_POSITION]
               /\ putLog' = [adapter |-> pdfAdapter, pages |-> <<>>]
          ELSE UNCHANGED <<adapters, holderPos, putLog>>
       /\ lastCall' = NoCall
       /\ pageView' = view
       /\ UNCHANGED <<documentVars, holderImage, tasks, destroyed, registered,
                      peerVars, downloads, lastRequested, raster, overlay>>

\* The same when no page view takes part in the gesture
Deliver(r, fingersNext, d) == DeliverWith(r, fingersNext, d, pageView)

\* One MotionEvent delivered to the RecyclerView of an attached viewer
Touch(action, count, fingersNext, spanOk, slop, d) ==
    Deliver(DispatchToListener(action, count, spanOk, slop, d), fingersNext, d)

TouchDown ==
    /\ fingers = 0
    /\ Touch("DOWN", 1, 1, FALSE, FALSE, <<1, 1>>)

\* spans: whether the pointers down after the event may be far enough
\* apart for the detector (never so with a single pointer)
SpanChoices(spans, n) == IF n >= 2 THEN spans ELSE {FALSE}

PointerDown(spans) ==
    /\ fingers >= 1 /\ fingers < MaxFingers
    /\ \E spanOk \in SpanChoices(spans, fingers + 1) :
           Touch("POINTER_DOWN", fingers + 1, fingers + 1, spanOk, FALSE, <<1, 1>>)

TouchMove(spans, slops, deltas) ==
    /\ fingers >= 1
    /\ \E spanOk \in SpanChoices(spans, fingers), slop \in slops, d \in deltas :
           Touch("MOVE", fingers, fingers, spanOk, slop, d)

PointerUp(spans) ==
    /\ fingers >= 2
    /\ \E spanOk \in SpanChoices(spans, fingers - 1) :
           Touch("POINTER_UP", fingers, fingers - 1, spanOk, FALSE, <<1, 1>>)

TouchUp ==
    /\ fingers = 1
    /\ Touch("UP", 1, 0, FALSE, FALSE, <<1, 1>>)

TouchCancel ==
    /\ fingers >= 1
    /\ Touch("CANCEL", fingers, 0, FALSE, FALSE, <<1, 1>>)

\* The runnable queued by recyclerView.post { scaleX = 1.0f; scaleY = 1.0f }
RunPostedReset ==
    /\ resetPosted
    /\ scaleX' = ScaleUnit
    /\ resetPosted' = FALSE
    /\ emitted' = <<>>
    /\ lastCall' = NoCall
    /\ UNCHANGED <<scaleFactor, baseScaleFactor, isScaling, pointerCount,
                   inProgress, intercepting, fingers, documentVars, renderVars,
                   destroyed, registered, putLog, pinchVars, peerVars, extraVars>>

\* ------------------------------------------------- ZoomableImageView
\* getImageWidth / getImageHeight
getImageWidth(v) == (v.drawable[1] * v.scale) \div ScaleUnit
getImageHeight(v) == (v.drawable[2] * v.scale) \div ScaleUnit

\* getFixTranslation: what to add to trans to bring it back in range
getFixTranslation(trans, viewSize, contentSize) ==
    LET minTrans == IF contentSize <= viewSize THEN 0 ELSE viewSize - contentSize
        maxTrans == IF contentSize <= viewSize THEN viewSize - contentSize ELSE 0
    IN IF trans < minTrans THEN minTrans - trans
       ELSE IF trans > maxTrans THEN maxTrans - trans
       ELSE 0

\* fixTranslation
fixTranslation(v) ==
    [v EXCEPT !.transX = @ + getFixTranslation(@, ViewWidth, getImageWidth(v)),
              !.transY = @ + getFixTranslation(@, ViewHeight, getImageHeight(v))]

\* isImageLargerThanView
isImageLargerThanView(v) ==
    /\ v.drawable # NoDrawable
    /\ \/ ViewWidth > 0 /\ v.drawable[1] > ViewWidth
       \/ ViewHeight > 0 /\ v.drawable[2] > ViewHeight

\* isAtVerticalEdge answering false for every content position
isAtVerticalEdgeNever(v, deltaY) == FALSE

\* isAtVerticalEdge(deltaY)
isAtVerticalEdge(v, deltaY) ==
    IF getImageHeight(v) <= ViewHeight
    THEN TRUE
    ELSE LET atTop == v.transY >= 0 /\ deltaY > 0
             atBottom == v.transY + getImageHeight(v) <= ViewHeight /\ deltaY < 0
         IN atTop \/ atBottom

\* shouldAllowPan true whatever the scale and the bitmap
shouldAllowPanAlways(v) == TRUE

\* val shouldAllowPan = scale > minScale || (panEnabled && isLarger)
shouldAllowPan(v) ==
    v.scale > v.minScale \/ (v.panEnabled /\ isImageLargerThanView(v))

\* The direction decided anew from the displacement at every MOVE
classifyEveryMove(v, curr) ==
    LET dx == Abs(curr[1] - v.start[1])
        dy == Abs(curr[2] - v.start[2])
    IN IF dx > SCROLL_THRESHOLD \/ dy > SCROLL_THRESHOLD
       THEN (IF dx > dy THEN "HORIZONTAL" ELSE "VERTICAL")
       ELSE v.scrollDirection

\* The scroll direction after a MOVE to curr in mode DRAG
classify(v, curr) ==
    LET dx == Abs(curr[1] - v.start[1])
        dy == Abs(curr[2] - v.start[2])
    IN IF v.scrollDirection = "NONE"
          /\ (dx > SCROLL_THRESHOLD \/ dy > SCROLL_THRESHOLD)
       THEN (IF dx > dy THEN "HORIZONTAL" ELSE "VERTICAL")
       ELSE v.scrollDirection

\* shouldBlockRecyclerView for the classified direction dir
shouldBlockRecyclerView(v, dir, deltaY) ==
    CASE dir = "HORIZONTAL" -> TRUE
      [] dir = "VERTICAL" -> ~isAtVerticalEdge(v, deltaY)
      [] OTHER -> FALSE

\* The ACTION_MOVE branch of handleTouch in mode DRAG with panning allowed
panMove(v, curr) ==
    LET dir == classify(v, curr)
        deltaX == curr[1] - v.last[1]
        deltaY == curr[2] - v.last[2]
    IN IF shouldBlockRecyclerView(v, dir, deltaY)
       THEN [fixTranslation([v EXCEPT !.transX = @ + deltaX,
                                      !.transY = @ + deltaY])
               EXCEPT !.scrollDirection = dir, !.disallow = TRUE,
                      !.handled = TRUE, !.translated = TRUE, !.last = curr]
       ELSE [v EXCEPT !.scrollDirection = dir, !.disallow = FALSE,
                      !.handled = FALSE, !.last = curr]

\* The same branches without parent?.requestDisallowInterceptTouchEvent(false)
releaseTouchKeepsClaim(v) ==
    [v EXCEPT !.mode = "NONE", !.scrollDirection = "NONE", !.handled = FALSE]

\* The ACTION_UP, ACTION_POINTER_UP and ACTION_CANCEL branches
releaseTouch(v) ==
    [v EXCEPT !.mode = "NONE", !.scrollDirection = "NONE",
              !.disallow = FALSE, !.handled = FALSE]

\* handleTouch(event). With zoomEnabled false neither detector sees the
\* event, so the ScaleListener and the GestureListener of the view never run.
handleTouch(v0, action, curr) ==
    LET v == [v0 EXCEPT !.handled = FALSE, !.translated = FALSE,
                        !.event = action, !.doubleTap = FALSE]
    IN CASE action = "DOWN" ->
              [v EXCEPT !.last = curr, !.start = curr, !.mode = "DRAG",
                        !.scrollDirection = "NONE",
                        !.handled = shouldAllowPan(v)]
         [] action = "POINTER_DOWN" ->
              [v EXCEPT !.last = curr, !.mode = "ZOOM",
                        !.scrollDirection = "NONE", !.disallow = TRUE,
                        !.handled = TRUE]
         [] action = "MOVE" ->
              IF v.mode = "DRAG" /\ shouldAllowPan(v) THEN panMove(v, curr)
              ELSE IF ~shouldAllowPan(v) /\ v.mode = "DRAG"
              THEN [v EXCEPT !.disallow = FALSE, !.handled = FALSE]
              ELSE v
         [] action \in {"UP", "POINTER_UP", "CANCEL"} -> releaseTouch(v)

\* GestureListener.onDoubleTap(e) of the page view, e at curr:
\* matrix.postScale(t, t, e.x, e.y) moves a translation to e + t * (trans - e)
onDoubleTap(v, curr) ==
    IF ~v.zoomEnabled
    THEN v
    ELSE IF v.scale > v.minScale
    THEN fixTranslation(
             [v EXCEPT !.scale = v.minScale,
                       !.transX = curr[1] + ((@ - curr[1]) * v.minScale) \div v.scale,
                       !.transY = curr[2] + ((@ - curr[2]) * v.minScale) \div v.scale])
    ELSE fixTranslation(
             [v EXCEPT !.scale = 2 * v.scale,
                       !.transX = curr[1] + 2 * (@ - curr[1]),
                       !.transY = curr[2] + 2 * (@ - curr[2])])

\* resetZoom
resetZoom(v) == [v EXCEPT !.scale = v.minScale, !.transX = 0, !.transY = 0]

\* setImageBitmap(bm): the matrix is reset and a bitmap wider than the
\* view is centred horizontally
setImageBitmap(v, bm) ==
    IF bm # NoDrawable /\ ViewWidth > 0 /\ ViewHeight > 0
    THEN [v EXCEPT !.drawable = bm,
                   !.transX = IF bm[1] > ViewWidth
                              THEN (ViewWidth - bm[1]) \div 2 ELSE 0,
                   !.transY = 0]
    ELSE [v EXCEPT !.drawable = bm]

\* The pointers of the gesture after the view handled an event: a view
\* that returns false for ACTION_DOWN receives nothing more of the gesture
PointersAfter(v, action) ==
    CASE action = "DOWN" -> IF v.handled THEN 1 ELSE 0
      [] action = "POINTER_DOWN" -> v.pointers + 1
      [] action = "POINTER_UP" -> v.pointers - 1
      [] action \in {"UP", "CANCEL"} -> 0
      [] OTHER -> v.pointers

\* One MotionEvent dispatched to the page view. ACTION_CANCEL is what the
\* view receives when an ancestor takes the gesture over.
PageTouch(action, curr) ==
    LET v == handleTouch(pageView, action, curr)
    IN /\ ~destroyed
       /\ CASE action = "DOWN" -> pageView.pointers = 0
            [] action = "POINTER_DOWN" ->
                   pageView.pointers >= 1 /\ pageView.pointers < MaxFingers
            [] action = "POINTER_UP" -> pageView.pointers >= 2
            [] action = "UP" -> pageView.pointers = 1
            [] OTHER -> pageView.pointers >= 1
       /\ pageView' = [v EXCEPT !.pointers = PointersAfter(v, action)]
       /\ emitted' = <<>>
       /\ lastCall' = NoCall
       /\ UNCHANGED <<gestureVars, documentVars, renderVars, destroyed,
                      registered, putLog, pinchVars, peerVars, downloads,
                      lastRequested, raster, overlay>>

\* onBindViewHolder on the holder of the page view: resetZoom, then the
\* cached bitmap or the null placeholder
PageBind(bm) ==
    /\ ~destroyed
    /\ pageView' = [setImageBitmap(resetZoom(pageView), bm)
                      EXCEPT !.event = "NONE", !.doubleTap = FALSE]
    /\ emitted' = <<>>
    /\ lastCall' = NoCall
    /\ UNCHANGED <<gestureVars, documentVars, renderVars, destroyed,
                   registered, putLog, pinchVars, peerVars, downloads,
                   lastRequested, raster, overlay>>

\* The render coroutine of the page delivers its bitmap (line 485)
PageRendered(bm) ==
    /\ ~destroyed
    /\ pageView.drawable = NoDrawable
    /\ pageView' = [setImageBitmap(pageView, bm)
                      EXCEPT !.event = "NONE", !.doubleTap = FALSE]
    /\ emitted' = <<>>
    /\ lastCall' = NoCall
    /\ UNCHANGED <<gestureVars, documentVars, renderVars, destroyed,
                   registered, putLog, pinchVars, peerVars, downloads,
                   lastRequested, raster, overlay>>

\* ---------------------------------- RecyclerView over the page view
\* ViewGroup.dispatchTouchEvent of the RecyclerView, whose child under the
\* finger is the page view (onCreateViewHolder makes the ZoomableImageView
\* the item view, so its parent is the RecyclerView).
\* The page view is the touch target once it handled ACTION_DOWN, until UP
\* or CANCEL; ACTION_DOWN starts a new gesture without a target.
ChildHoldsGesture(action) == action # "DOWN" /\ pageView.pointers >= 1

\* FLAG_DISALLOW_INTERCEPT as the page view requested it last; ACTION_DOWN
\* clears the flag
DisallowIntercept(action) == action # "DOWN" /\ pageView.disallow

\* ZoomableImageView.onTouchEvent as the touch target
dispatchToChild(v, action, curr) ==
    [handleTouch(v, action, curr)
       EXCEPT !.pointers = PointersAfter(handleTouch(v, action, curr), action)]

\* The page view after an event that went through
\* RecyclerView.onInterceptTouchEvent: intercepted, its target is cancelled;
\* otherwise the target, or whoever is under an ACTION_DOWN, gets the event
ChildAfter(action, curr, intercepted) ==
    IF intercepted
    THEN (IF ChildHoldsGesture(action)
          THEN dispatchToChild(pageView, "CANCEL", pageView.last)
          ELSE pageView)
    ELSE IF action = "DOWN" \/ ChildHoldsGesture(action)
    THEN dispatchToChild(pageView, action, curr)
    ELSE pageView

\* While the target holds disallow-intercept the RecyclerView calls neither
\* its own onInterceptTouchEvent nor its OnItemTouchListeners: the event
\* goes to the page view alone
ChildOnly(action, fingersNext, curr) ==
    /\ ~destroyed
    /\ pageView' = dispatchToChild(pageView, action, curr)
    /\ fingers' = fingersNext
    /\ emitted' = <<>>
    /\ lastCall' = NoCall
    /\ UNCHANGED <<scaleFactor, baseScaleFactor, isScaling, pointerCount,
                   scaleX, resetPosted, inProgress, intercepting,
                   documentVars, renderVars, destroyed, registered, putLog,
                   pinchVars, peerVars, downloads, lastRequested, raster, overlay>>

\* The event went to the OnItemTouchListener first (r); rvScrolls: the
\* RecyclerView's own onInterceptTouchEvent starts a scroll on this event
ThroughListener(r, action, fingersNext, d, curr, rvScrolls) ==
    DeliverWith(r, fingersNext, d, ChildAfter(action, curr, r.ret \/ rvScrolls))

\* One MotionEvent dispatched by the RecyclerView
ViewerTouch(action, count, fingersNext, spanOk, slop, d, curr, rvScrolls) ==
    IF ChildHoldsGesture(action) /\ DisallowIntercept(action)
    THEN ChildOnly(action, fingersNext, curr)
    ELSE ThroughListener(DispatchToListener(action, count, spanOk, slop, d),
                         action, fingersNext, d, curr, rvScrolls)

\* The ACTION_DOWN that completes a double-tap at curr. InlinePDFView never
\* passes an event to its gestureDetector and its GestureListener overrides
\* nothing (lines 118-163, 428-430); the page view passes events to its own
\* detectors only if zoomEnabled (ZoomableImageView.kt:81-84), so that its
\* onDoubleTap runs before the ACTION_DOWN branch of handleTouch.
SecondTapDown(curr) ==
    /\ fingers = 0
    /\ DeliverWith(
           DispatchToListener("DOWN", 1, FALSE, FALSE, <<1, 1>>), 1, <<1, 1>>,
           [(IF DispatchToListener("DOWN", 1, FALSE, FALSE, <<1, 1>>).ret
             THEN pageView
             ELSE dispatchToChild(
                      IF pageView.zoomEnabled
                      THEN onDoubleTap(pageView, curr) ELSE pageView,
                      "DOWN", curr))
              EXCEPT !.doubleTap = TRUE])

\* ------------------------------------------------- load, render, destroy
\* A PdfRenderer as the viewer sees it. closedAgain: close() was called on
\* it when it was already closed (the call throws IllegalStateException)
NewHandle(n) ==
    [closed |-> FALSE, closedAgain |-> FALSE, pageOpen |-> FALSE, pageCount |-> n]

\* pdfRenderer?.close() throws when the renderer is already closed or has a
\* page open
CloseThrows(hs, i) == i # 0 /\ (hs[i].closed \/ hs[i].pageOpen)

\* pdfRenderer?.close() left out
closeRendererSkipped(hs, i) == hs

\* pdfRenderer?.close() on renderer i (0 is null): the handles afterwards
closeRenderer(hs, i) ==
    IF i = 0 THEN hs
    ELSE IF hs[i].closed THEN [hs EXCEPT ![i].closedAgain = TRUE]
    ELSE IF hs[i].pageOpen THEN hs
    ELSE [hs EXCEPT ![i].closed = TRUE]

\* InlinePDFView.loadFromPath. outcome: the file cannot be opened
\* ("nofile"), PdfRenderer rejects it ("corrupt"), or it opens with n pages
\* ("ok"). Every exception lands in the catch block. The documents of a
\* scenario differ in their page counts, so n also names the document.
loadFromPath(outcome, n) ==
    LET old == pdfRenderer
        closedHandles == closeRenderer(handles, old)
        newAdapter == [scaleFactor |-> scaleFactor, bitmapCache |-> EmptyCache,
                       renderer |-> Len(handles) + 1]
    IN /\ outcome = "ok" => Len(handles) < MaxLoads
       /\ isLoading' = FALSE
       /\ IF outcome = "nofile"
          THEN /\ UNCHANGED <<pdfRenderer, pdfAdapter, totalPages,
                              currentPageIndex, handles, adapters, holderPos,
                              holderImage, putLog>>
               /\ emitted' = <<>>
          ELSE IF outcome = "corrupt" \/ CloseThrows(handles, old)
          THEN /\ handles' = closedHandles
               /\ UNCHANGED <<pdfRenderer, pdfAdapter, totalPages,
                              currentPageIndex, adapters, holderPos,
                              holderImage, putLog>>
               /\ emitted' = <<>>
          ELSE /\ handles' = Append(closedHandles, NewHandle(n))
               /\ pdfRenderer' = Len(handles) + 1
               /\ totalPages' = n
               /\ IF n > 0
                  THEN /\ adapters' = Append(adapters, newAdapter)
                       /\ pdfAdapter' = Len(adapters) + 1
                       /\ holderPos' = [h \in Holders |-> NO_POSITION]
                       /\ holderImage' = [h \in Holders |-> NoBitmap]
                       /\ currentPageIndex' = 0
                       /\ putLog' = [adapter |-> Len(adapters) + 1, pages |-> <<>>]
                       /\ emitted' = <<<<"pageChanged", 1>>>>
                  ELSE /\ UNCHANGED <<adapters, pdfAdapter, holderPos,
                                      holderImage, currentPageIndex, putLog>>
                       /\ emitted' = <<>>
       /\ UNCHANGED <<gestureVars, lastNotifiedPageIndex, tasks, destroyed,
                      registered, pinchVars, peerVars, pageView, raster, overlay>>

\* InlinePDFPlugin.loadPDF with a path, which runs InlinePDFView.loadFromPath
\* and resolves. initialPage: the option of that name, 0 when absent; the
\* plugin does not read it.
LoadPDF(initialPage, outcome, n) ==
    /\ registered
    /\ loadFromPath(outcome, n)
    /\ lastCall' = Call("loadPDF", initialPage, TRUE, getState,
                        PDFState(currentPageIndex', totalPages',
                                 scaleFactor, FALSE),
                        TRUE, emitted')
    /\ lastRequested' = n
    /\ UNCHANGED downloads

\* InlinePDFPlugin.loadPDF with a url, which runs InlinePDFView.loadFromUrl
\* and resolves: the download of document n starts on Dispatchers.IO.
\* The coroutine's isLoading = true is taken with the call.
LoadFromUrl(n) ==
    /\ registered
    /\ n \notin downloads
    /\ isLoading' = TRUE
    /\ downloads' = downloads \cup {n}
    /\ lastRequested' = n
    /\ emitted' = <<>>
    /\ lastCall' = Call("loadPDF", 0, TRUE, getState,
                        PDFState(currentPageIndex, totalPages, scaleFactor, TRUE),
                        TRUE, <<>>)
    /\ UNCHANGED <<gestureVars, pdfRenderer, pdfAdapter, totalPages,
                   currentPageIndex, lastNotifiedPageIndex, handles,
                   renderVars, destroyed, registered, putLog, pinchVars,
                   peerVars, pageView, raster, overlay>>

\* The download of document n ends: withContext(Dispatchers.Main) runs
\* loadFromPath on the temporary file. cleanup() cancels the coroutine.
DownloadDone(n) ==
    /\ ~destroyed
    /\ n \in downloads
    /\ loadFromPath("ok", n)
    /\ downloads' = downloads \ {n}
    /\ lastCall' = NoCall
    /\ UNCHANGED lastRequested

\* The download of document n fails: the catch block of loadFromUrl
DownloadFailed(n) ==
    /\ ~destroyed
    /\ n \in downloads
    /\ isLoading' = FALSE
    /\ downloads' = downloads \ {n}
    /\ emitted' = <<>>
    /\ lastCall' = NoCall
    /\ UNCHANGED <<gestureVars, pdfRenderer, pdfAdapter, totalPages,
                   currentPageIndex, lastNotifiedPageIndex, handles,
                   renderVars, destroyed, registered, putLog, pinchVars,
                   peerVars, lastRequested, pageView, raster, overlay>>

\* InlinePDFView.loadFromPath, reached by loadPDF without initialPage
LoadFromPath(outcome, n) == LoadPDF(0, outcome, n)

\* PDFPageAdapter.onBindViewHolder(holder, position): the RecyclerView
\* binds a holder, fresh or recycled, to a position no other holder shows.
\* A cached bitmap is set at once; otherwise a render coroutine is launched
\* on Dispatchers.IO, outside the view's coroutineScope.
Bind(h, position, maxTasks) ==
    LET a == pdfAdapter
        cachedBitmap == CacheGet(adapters[a].bitmapCache, position)
        t == [adapter |-> a, holder |-> h, position |-> position,
              stage |-> "launched", bitmap |-> NoBitmap]
    IN /\ a # 0
       /\ ~handles[adapters[a].renderer].closed
       /\ position \in 0..(handles[adapters[a].renderer].pageCount - 1)
       /\ \A g \in Holders \ {h} : holderPos[g] # position
       /\ holderPos' = [holderPos EXCEPT ![h] = position]
       /\ IF cachedBitmap # NoBitmap
          THEN /\ holderImage' = [holderImage EXCEPT ![h] = cachedBitmap]
               /\ UNCHANGED tasks
          ELSE /\ holderImage' = [holderImage EXCEPT ![h] = NoBitmap]
               /\ Cardinality(tasks) < maxTasks
               /\ t \notin tasks
               /\ tasks' = tasks \cup {t}
       /\ lastCall' = NoCall
       /\ UNCHANGED <<gestureVars, documentVars, adapters, destroyed,
                      registered, emitted, putLog, pinchVars, peerVars, extraVars>>

\* The RecyclerView recycles a holder that scrolled out of view
Recycle(h) ==
    /\ pdfAdapter # 0
    /\ holderPos[h] # NO_POSITION
    /\ holderPos' = [holderPos EXCEPT ![h] = NO_POSITION]
    /\ lastCall' = NoCall
    /\ UNCHANGED <<gestureVars, documentVars, adapters, holderImage, tasks,
                   destroyed, registered, emitted, putLog, pinchVars, peerVars, extraVars>>

\* A render coroutine moves from one stage of renderPage to the next
Advance(t, stage) == (tasks \ {t}) \cup {[t EXCEPT !.stage = stage]}

\* val maxWidth = 8192
maxWidth == 8192

\* renderPage, lines 506-517: the size of the bitmap for a page of
\* page[1] x page[2] points. toInt() truncates; the ratio is kept exact.
bitmapSize(page, sf, is) ==
    LET scale == (sf * is) \div ScaleUnit
        width == (page[1] * scale) \div ScaleUnit
        height == (page[2] * scale) \div ScaleUnit
    IN [pageWidth |-> page[1], pageHeight |-> page[2],
        scaleFactor |-> sf, initialScale |-> is,
        width |-> IF width > maxWidth THEN maxWidth ELSE width,
        height |-> IF width > maxWidth THEN (height * maxWidth) \div width
                   ELSE height]

\* A render computes the size of its bitmap: sf is the adapter's
\* scaleFactor, is its initialScale
RenderSize(page, sf, is) ==
    /\ ~destroyed
    /\ raster' = bitmapSize(page, sf, is)
    /\ emitted' = <<>>
    /\ lastCall' = NoCall
    /\ UNCHANGED <<gestureVars, documentVars, renderVars, destroyed,
                   registered, putLog, pinchVars, peerVars, downloads,
                   lastRequested, pageView, overlay>>

\* renderPage: enter synchronized(pdfRenderer), pdfRenderer.openPage.
\* openPage throws on a closed renderer; the coroutine's catch logs it.
RenderOpen(t) ==
    LET hd == adapters[t.adapter].renderer IN
    /\ t \in tasks /\ t.stage = "launched"
    /\ ~LockHeld(t.adapter)
    /\ IF handles[hd].closed \/ handles[hd].pageOpen
       THEN /\ tasks' = tasks \ {t}
            /\ UNCHANGED handles
       ELSE /\ tasks' = Advance(t, "opened")
            /\ handles' = [handles EXCEPT ![hd].pageOpen = TRUE]
    /\ lastCall' = NoCall
    /\ UNCHANGED <<gestureVars, pdfRenderer, pdfAdapter, totalPages,
                   currentPageIndex, lastNotifiedPageIndex, isLoading,
                   adapters, holderPos, holderImage, destroyed, registered,
                   emitted, putLog, pinchVars, peerVars, extraVars>>

\* renderPage: size the bitmap from the adapter's scaleFactor, page.render,
\* page.close
RenderDraw(t) ==
    LET hd == adapters[t.adapter].renderer
        bitmap == [page |-> t.position, scale |-> adapters[t.adapter].scaleFactor]
    IN /\ t \in tasks /\ t.stage = "opened"
       /\ tasks' = (tasks \ {t}) \cup
                     {[t EXCEPT !.stage = "rendered", !.bitmap = bitmap]}
       /\ handles' = [handles EXCEPT ![hd].pageOpen = FALSE]
       /\ lastCall' = NoCall
       /\ UNCHANGED <<gestureVars, pdfRenderer, pdfAdapter, totalPages,
                      currentPageIndex, lastNotifiedPageIndex, isLoading,
                      adapters, holderPos, holderImage, destroyed, registered,
                      emitted, putLog, pinchVars, peerVars, extraVars>>

\* renderPage: Bitmap.createBitmap or page.render throws (a width or height
\* of 0, a page the renderer cannot draw). page.close() is not reached, the
\* exception leaves synchronized and the coroutine's catch logs it.
RenderFail(t) ==
    /\ t \in tasks /\ t.stage = "opened"
    /\ tasks' = tasks \ {t}
    /\ lastCall' = NoCall
    /\ UNCHANGED <<gestureVars, documentVars, adapters, holderPos, holderImage,
                   destroyed, registered, emitted, putLog, pinchVars, peerVars, extraVars>>

\* renderPage: if (bitmapCache.size >= 5)
RenderCheck(t) ==
    LET cache == adapters[t.adapter].bitmapCache IN
    /\ t \in tasks /\ t.stage = "rendered"
    /\ tasks' = Advance(t, IF cacheIsFull(cache) THEN "evicting" ELSE "inserting")
    /\ lastCall' = NoCall
    /\ UNCHANGED <<gestureVars, documentVars, adapters, holderPos, holderImage,
                   destroyed, registered, emitted, putLog, pinchVars, peerVars, extraVars>>

\* renderPage: keys.take(bitmapCache.size - 3) and the removals. take throws
\* IllegalArgumentException on a negative count (the cache was cleared after
\* the size check); the coroutine's catch logs it and the render is lost.
RenderEvict(t) ==
    LET cache == adapters[t.adapter].bitmapCache
        n == Cardinality(cache) - CacheKeep
    IN /\ t \in tasks /\ t.stage = "evicting"
       /\ IF n < 0
          THEN /\ tasks' = tasks \ {t}
               /\ UNCHANGED adapters
          ELSE /\ tasks' = Advance(t, "inserting")
               /\ adapters' = [adapters EXCEPT ![t.adapter].bitmapCache =
                                  CacheRemove(cache, keysToRemove(cache, n))]
       /\ lastCall' = NoCall
       /\ UNCHANGED <<gestureVars, documentVars, holderPos, holderImage,
                      destroyed, registered, emitted, putLog,
                      pinchVars, peerVars, extraVars>>

\* renderPage: bitmapCache[position] = bitmap, leave synchronized
RenderPut(t) ==
    LET cache == adapters[t.adapter].bitmapCache IN
    /\ t \in tasks /\ t.stage = "inserting"
    /\ adapters' = [adapters EXCEPT
                      ![t.adapter].bitmapCache = CachePut(cache, t.bitmap)]
    /\ tasks' = Advance(t, "decoded")
    /\ putLog' = LogPut(putLog, t.adapter, t.position)
    /\ lastCall' = NoCall
    /\ UNCHANGED <<gestureVars, documentVars, holderPos, holderImage,
                   destroyed, registered, emitted, pinchVars, peerVars, extraVars>>

\* withContext(Dispatchers.Main): bind the bitmap if the holder still
\* shows this position
RenderBind(t) ==
    /\ t \in tasks /\ t.stage = "decoded"
    /\ tasks' = tasks \ {t}
    /\ holderImage' = IF AdapterPositionOf(t) = t.position
                      THEN [holderImage EXCEPT ![t.holder] = t.bitmap]
                      ELSE holderImage
    /\ lastCall' = NoCall
    /\ UNCHANGED <<gestureVars, documentVars, adapters, holderPos, destroyed,
                   registered, emitted, putLog, pinchVars, peerVars, extraVars>>

\* InlinePDFPlugin.destroy: the view leaves its parent, cleanup() runs and
\* the viewerId is removed. pdfRenderer?.close() throws when the renderer is
\* already closed or a render has a page open; destroy then rejects and the
\* viewerId stays registered.
Destroy ==
    LET closeThrows == CloseThrows(handles, pdfRenderer)
    IN /\ registered
       /\ destroyed' = TRUE
       /\ adapters' = IF pdfAdapter # 0
                      THEN [adapters EXCEPT ![pdfAdapter].bitmapCache = EmptyCache]
                      ELSE adapters
       /\ pdfAdapter' = 0
       /\ holderPos' = [h \in Holders |-> NO_POSITION]
       /\ handles' = closeRenderer(handles, pdfRenderer)
       /\ IF closeThrows
          THEN UNCHANGED <<pdfRenderer, registered>>
          ELSE /\ pdfRenderer' = 0
               /\ registered' = FALSE
       /\ emitted' = <<>>
       /\ lastCall' = Call("destroy", 0, TRUE, getState, getState,
                            ~closeThrows, <<>>)
       /\ putLog' = IF pdfAdapter # 0
                    THEN [adapter |-> pdfAdapter, pages |-> <<>>]
                    ELSE putLog
       /\ UNCHANGED <<gestureVars, totalPages, currentPageIndex,
                      lastNotifiedPageIndex, isLoading, holderImage, tasks,
                      pinchVars, peerVars, extraVars>>

\* ------------------------------------------------- Android navigation
\* InlinePDFView.goToPage with the index taken for the page number
goToPageNoOffset(cpi, tp, pageNumber) ==
    IF pageNumber >= 0 /\ pageNumber < tp THEN pageNumber ELSE cpi

\* InlinePDFView.goToPage without its range check
goToPageUnchecked(cpi, tp, pageNumber) == pageNumber - 1

\* InlinePDFView.goToPage: the currentPageIndex it leaves
goToPage(cpi, tp, pageNumber) ==
    LET pageIndex == pageNumber - 1
    IN IF pageIndex >= 0 /\ pageIndex < tp THEN pageIndex ELSE cpi

\* InlinePDFPlugin.goToPage on the registered viewer. The scroll it asks
\* the RecyclerView for is delivered later, as OnScrolled events.
GoToPage(pageNumber) ==
    /\ registered
    /\ currentPageIndex' = goToPage(currentPageIndex, totalPages, pageNumber)
    /\ emitted' = <<>>
    /\ lastCall' = Call("goToPage", pageNumber, TRUE, getState,
                        PDFState(currentPageIndex', totalPages, scaleFactor,
                                 isLoading),
                        TRUE, <<>>)
    /\ UNCHANGED <<gestureVars, pdfRenderer, pdfAdapter, totalPages,
                   lastNotifiedPageIndex, isLoading, handles, renderVars,
                   destroyed, registered, putLog, pinchVars, peerVars, extraVars>>

\* RecyclerView.OnScrollListener.onScrolled -> updateCurrentPageFromScroll;
\* mostVisiblePage is the item the layout manager shows the most of
OnScrolled(mostVisiblePage) ==
    /\ ~destroyed
    /\ pdfAdapter # 0
    /\ mostVisiblePage \in
           0..(handles[adapters[pdfAdapter].renderer].pageCount - 1)
    /\ IF mostVisiblePage # currentPageIndex
       THEN /\ currentPageIndex' = mostVisiblePage
            /\ IF mostVisiblePage # lastNotifiedPageIndex
               THEN /\ emitted' = <<<<"pageChanged", mostVisiblePage + 1>>>>
                    /\ lastNotifiedPageIndex' = mostVisiblePage
               ELSE /\ emitted' = <<>>
                    /\ UNCHANGED lastNotifiedPageIndex
       ELSE /\ emitted' = <<>>
            /\ UNCHANGED <<currentPageIndex, lastNotifiedPageIndex>>
    /\ lastCall' = NoCall
    /\ UNCHANGED <<gestureVars, pdfRenderer, pdfAdapter, totalPages, isLoading,
                   handles, renderVars, destroyed, registered, putLog, pinchVars, peerVars, extraVars>>

\* ------------------------------------------------------- InlinePDFWeb
\* A call on a viewerId that is not in viewers: throws, nothing changes
WebUnknownViewer(op, page) ==
    /\ ~web.exists
    /\ emitted' = <<>>
    /\ lastCall' = Call(op, page, FALSE, NoViewerState, NoViewerState,
                        FALSE, <<>>)
    /\ UNCHANGED <<web, ios, platform, androidVars>>

\* InlinePDFWeb.create; initialScale 0 stands for an absent option
WebCreate(initialScale) ==
    /\ ~web.exists
    /\ web' = [exists |-> TRUE,
               state |-> [currentPage |-> 1, totalPages |-> 0,
                          zoom |-> IF initialScale = 0 THEN ScaleUnit
                                   ELSE initialScale,
                          isLoading |-> TRUE]]
    /\ emitted' = <<>>
    /\ lastCall' = Call("create", 0, TRUE, NoViewerState, web'.state, TRUE, <<>>)
    /\ UNCHANGED <<ios, platform, androidVars>>

\* InlinePDFWeb.loadPDF: logs only
WebLoadPDF ==
    \/ WebUnknownViewer("loadPDF", 0)
    \/ /\ web.exists
       /\ emitted' = <<>>
       /\ lastCall' = Call("loadPDF", 0, TRUE, web.state, web.state, TRUE, <<>>)
       /\ UNCHANGED <<web, ios, platform, androidVars>>

\* InlinePDFWeb.goToPage
WebGoToPage(page) ==
    \/ WebUnknownViewer("goToPage", page)
    \/ /\ web.exists
       /\ web' = [web EXCEPT !.state.currentPage = page]
       /\ emitted' = <<>>
       /\ lastCall' = Call("goToPage", page, TRUE, web.state, web'.state,
                           TRUE, <<>>)
       /\ UNCHANGED <<ios, platform, androidVars>>

\* InlinePDFWeb.resetZoom
WebResetZoom ==
    \/ WebUnknownViewer("resetZoom", 0)
    \/ /\ web.exists
       /\ web' = [web EXCEPT !.state.zoom = ScaleUnit]
       /\ emitted' = <<>>
       /\ lastCall' = Call("resetZoom", 0, TRUE, web.state, web'.state,
                           TRUE, <<>>)
       /\ UNCHANGED <<ios, platform, androidVars>>

\* InlinePDFWeb.destroy: viewers.delete, known viewerId or not
WebDestroy ==
    /\ web' = NoWebViewer
    /\ emitted' = <<>>
    /\ lastCall' = Call("destroy", 0, web.exists, web.state, NoViewerState,
                        TRUE, <<>>)
    /\ UNCHANGED <<ios, platform, androidVars>>

\* ------------------------------------------- iOS InlinePDFViewController
\* isGestureActive is written only by handlePinch, and
\* setupGestureRecognizers registers no recognizer that would call it
isGestureActive == FALSE

\* InlinePDFViewController.getState
IosState(v) == PDFState(v.currentPage, v.pageCount, v.scaleFactor, v.isLoading)

\* PDFView posts a changed-notification when a property gets a new value;
\* whether it also posts when the property is assigned its own value is
\* not specified
Posts(old, new) == IF old # new THEN {TRUE} ELSE BOOLEAN

\* scaleChanged(_:), the observer of PDFViewScaleChanged
scaleChanged(v, posted) ==
    IF posted /\ ~isGestureActive
    THEN <<<<"zoomChanged", v.scaleFactor>>>>
    ELSE <<>>

\* pageChanged(_:), the observer of PDFViewPageChanged
pageChanged(v, posted) ==
    IF posted /\ v.pageCount > 0
    THEN <<<<"pageChanged", v.currentPage + 1>>>>
    ELSE <<>>

\* A plugin method whose guard finds no controller for the viewerId
IosUnknownViewer(op, page) ==
    /\ ~ios.exists
    /\ emitted' = <<>>
    /\ lastCall' = Call(op, page, FALSE, NoViewerState, NoViewerState,
                        FALSE, <<>>)
    /\ UNCHANGED <<web, ios, platform, androidVars>>

\* InlinePDFPlugin.create (Swift); initialScale 0 stands for an absent option
IosCreate(initialScale) ==
    /\ ~ios.exists
    /\ ios' = [NoIosViewer EXCEPT
                 !.exists = TRUE,
                 !.initialScale = IF initialScale = 0 THEN ScaleUnit
                                  ELSE initialScale]
    /\ emitted' = <<>>
    /\ lastCall' = Call("create", 0, TRUE, NoViewerState, IosState(ios'),
                        TRUE, <<>>)
    /\ UNCHANGED <<web, platform, androidVars>>

\* loadPDF(from:): isLoading = true and the document is read on a global
\* queue; n is the page count the file will yield, 0 for an unreadable file
IosLoadPDF(n) ==
    \/ IosUnknownViewer("loadPDF", 0)
    \/ /\ ios.exists
       /\ ios' = [ios EXCEPT !.isLoading = TRUE, !.loads = @ \cup {n}]
       /\ emitted' = <<>>
       /\ lastCall' = Call("loadPDF", 0, TRUE, IosState(ios), IosState(ios'),
                           TRUE, <<>>)
       /\ UNCHANGED <<web, platform, androidVars>>

\* The DispatchQueue.main.async block of a finished read
IosLoadDone(n) ==
    /\ ios.exists
    /\ n \in ios.loads
    /\ IF n > 0
       THEN \E pagePosted \in BOOLEAN,
               scalePosted \in Posts(ios.scaleFactor, ios.initialScale) :
              /\ ios' = [ios EXCEPT !.pageCount = n,
                                    !.currentPage = 0,
                                    !.scaleFactor = ios.initialScale,
                                    !.isLoading = FALSE,
                                    !.loads = @ \ {n}]
              /\ emitted' = pageChanged(ios', pagePosted)
                              \o scaleChanged(ios', scalePosted)
       ELSE /\ ios' = [ios EXCEPT !.isLoading = FALSE, !.loads = @ \ {n}]
            /\ emitted' = <<>>
    /\ lastCall' = NoCall
    /\ UNCHANGED <<web, platform, androidVars>>

\* goToPage(_:animated:) behind the plugin method; pdfView.go(to:) makes
\* the page current and posts PDFViewPageChanged
IosGoToPage(pageNumber) ==
    \/ IosUnknownViewer("goToPage", pageNumber)
    \/ /\ ios.exists
       /\ IF ios.pageCount > 0 /\ pageNumber > 0 /\ pageNumber <= ios.pageCount
          THEN \E posted \in Posts(ios.currentPage, pageNumber - 1) :
                 /\ ios' = [ios EXCEPT !.currentPage = pageNumber - 1]
                 /\ emitted' = pageChanged(ios', posted)
          ELSE /\ UNCHANGED ios
               /\ emitted' = <<>>
       /\ lastCall' = Call("goToPage", pageNumber, TRUE, IosState(ios),
                           IosState(ios'), TRUE, emitted')
       /\ UNCHANGED <<web, platform, androidVars>>

\* resetZoom(): pdfView.scaleFactor = 1.0, then onZoomChanged?(1.0)
IosResetZoom ==
    \/ IosUnknownViewer("resetZoom", 0)
    \/ /\ ios.exists
       /\ \E posted \in Posts(ios.scaleFactor, ScaleUnit) :
            /\ ios' = [ios EXCEPT !.scaleFactor = ScaleUnit]
            /\ emitted' = scaleChanged(ios', posted)
                            \o <<<<"zoomChanged", ScaleUnit>>>>
       /\ lastCall' = Call("resetZoom", 0, TRUE, IosState(ios), IosState(ios'),
                           TRUE, emitted')
       /\ UNCHANGED <<web, platform, androidVars>>

\* The user pinches the PDFView, which zooms natively within its limits
IosNativeZoom(z) ==
    /\ ios.exists /\ ios.pageCount > 0
    /\ z \in IosMinScale..IosMaxScale
    /\ z # ios.scaleFactor
    /\ ios' = [ios EXCEPT !.scaleFactor = z]
    /\ emitted' = scaleChanged(ios', TRUE)
    /\ lastCall' = NoCall
    /\ UNCHANGED <<web, platform, androidVars>>

\* The user scrolls the PDFView to another page
IosNativeScroll(page) ==
    /\ ios.exists
    /\ page \in 0..(ios.pageCount - 1)
    /\ page # ios.currentPage
    /\ ios' = [ios EXCEPT !.currentPage = page]
    /\ emitted' = pageChanged(ios', TRUE)
    /\ lastCall' = NoCall
    /\ UNCHANGED <<web, platform, androidVars>>

\* InlinePDFPlugin.destroy (Swift): the controller leaves its parent, its
\* document is dropped and the viewerId is forgotten
IosDestroy ==
    \/ IosUnknownViewer("destroy", 0)
    \/ /\ ios.exists
       /\ ios' = NoIosViewer
       /\ emitted' = <<>>
       /\ lastCall' = Call("destroy", 0, TRUE, IosState(ios), NoViewerState,
                           TRUE, <<>>)
       /\ UNCHANGED <<web, platform, androidVars>>

NextGesture ==
    \/ TouchDown
    \/ PointerDown(BOOLEAN)
    \/ TouchMove(BOOLEAN, BOOLEAN, ScaleDeltas)
    \/ PointerUp(BOOLEAN)
    \/ TouchUp
    \/ TouchCancel
    \/ RunPostedReset

SpecGesture == InitAndroid /\ [][NextGesture]_vars

\* ---------------------------------------------------- cache scenarios
\* One document of CacheDocPages pages and one holder bound to its pages in
\* any order, one render in flight at a time.
NextCache ==
    \/ pdfRenderer = 0 /\ LoadFromPath("ok", CacheDocPages)
    \/ \E p \in 0..(CacheDocPages - 1) : Bind(1, p, 1)
    \/ \E t \in tasks : RenderOpen(t)
    \/ \E t \in tasks : RenderDraw(t)
    \/ \E t \in tasks : RenderCheck(t)
    \/ \E t \in tasks : RenderEvict(t)
    \/ \E t \in tasks : RenderPut(t)
    \/ \E t \in tasks : RenderBind(t)

SpecCache == InitAndroid /\ [][NextCache]_vars

\* The same document scrolled page by page (the holder is rebound to a
\* neighbour of the page it shows), with two-finger pinches that leave the
\* scale as it is and settle: onScaleEnd clears the cache at any moment of
\* a render.
NextZoomCache ==
    \/ pdfRenderer = 0 /\ LoadFromPath("ok", CacheDocPages)
    \/ \E p \in 0..(CacheDocPages - 1) :
           /\ holderPos[1] = NO_POSITION \/ Abs(p - holderPos[1]) = 1
           /\ Bind(1, p, 1)
    \/ \E t \in tasks : RenderOpen(t)
    \/ \E t \in tasks : RenderDraw(t)
    \/ \E t \in tasks : RenderCheck(t)
    \/ \E t \in tasks : RenderEvict(t)
    \/ \E t \in tasks : RenderPut(t)
    \/ \E t \in tasks : RenderBind(t)
    \/ TouchDown
    \/ PointerDown({TRUE})
    \/ ~inProgress /\ TouchMove({TRUE}, {TRUE}, {<<1, 1>>})
    \/ inProgress /\ PointerUp({TRUE})
    \/ intercepting /\ TouchUp

SpecZoomCache == InitAndroid /\ [][NextZoomCache]_vars

\* --------------------------------------------------- render scenarios
\* Loads and reloads of a RenderDocPages-page document, NumHolders holders
\* bound and recycled, up to MaxTasks renders in flight, and destroy at any
\* moment. With fewer than CacheLimit pages no render reaches the eviction.
NextRender ==
    \/ LoadFromPath("ok", RenderDocPages)
    \/ \E h \in Holders, p \in 0..(RenderDocPages - 1) : Bind(h, p, MaxTasks)
    \/ \E h \in Holders : Recycle(h)
    \/ \E t \in tasks : RenderOpen(t)
    \/ \E t \in tasks : RenderDraw(t)
    \/ \E t \in tasks : RenderCheck(t)
    \/ \E t \in tasks : RenderPut(t)
    \/ \E t \in tasks : RenderBind(t)
    \/ Destroy

SpecRender == InitAndroid /\ [][NextRender]_vars

\* ----------------------------------------------- navigation scenarios
\* One viewer of one implementation: documents of up to NavPages pages,
\* goToPage with page numbers from below 1 to above the page count, scrolls
\* and zoom resets.
PageNumbers == (-1)..(NavPages + 1)

\* initialScale options of create: absent, 0.5, 2.0
InitialScales == {0, MinScale, 2 * ScaleUnit}

NextNav ==
    \/ platform = "android" /\ LoadFromPath("ok", NavPages)
    \/ platform = "android" /\ \E page \in PageNumbers : GoToPage(page)
    \/ platform = "android" /\ \E page \in 0..(NavPages - 1) : OnScrolled(page)
    \/ platform = "web" /\ \E scale \in InitialScales : WebCreate(scale)
    \/ platform = "web" /\ WebLoadPDF
    \/ platform = "web" /\ \E page \in PageNumbers : WebGoToPage(page)
    \/ platform = "web" /\ WebResetZoom
    \/ platform = "web" /\ WebDestroy
    \/ platform = "ios" /\ \E scale \in InitialScales : IosCreate(scale)
    \/ platform = "ios" /\ ios.loads = {} /\ \E n \in {0, NavPages} : IosLoadPDF(n)
    \/ platform = "ios" /\ \E n \in {0, NavPages} : IosLoadDone(n)
    \/ platform = "ios" /\ \E page \in PageNumbers : IosGoToPage(page)
    \/ platform = "ios" /\ IosResetZoom
    \/ platform = "ios" /\ \E z \in {IosMinScale, IosMaxScale} : IosNativeZoom(z)
    \/ platform = "ios" /\ \E page \in 0..(NavPages - 1) : IosNativeScroll(page)
    \/ platform = "ios" /\ IosDestroy

SpecNav == InitNav /\ [][NextNav]_vars

\* ------------------------------------------------------------ SpecLoad
\* Loads that succeed or fail, with and without initialPage, on one viewer
\* whose pages are bound and rendered meanwhile, and destroy at any moment.
LoadOutcomes == {"ok", "nofile", "corrupt"}

NextLoad ==
    \/ \E k \in 0..RenderDocPages, outcome \in LoadOutcomes :
           LoadPDF(k, outcome, RenderDocPages)
    \/ \E p \in 0..(RenderDocPages - 1) : Bind(1, p, 1)
    \/ \E t \in tasks : RenderOpen(t)
    \/ \E t \in tasks : RenderDraw(t)
    \/ \E t \in tasks : RenderCheck(t)
    \/ \E t \in tasks : RenderPut(t)
    \/ \E t \in tasks : RenderBind(t)
    \/ Destroy

SpecLoad == InitAndroid /\ [][NextLoad]_vars

\* ------------------------------------------------------ SpecZoomRender
\* One document whose pages are bound and rendered while two-finger
\* pinches double the scale: renders in flight across a scale settle.
NextZoomRender ==
    \/ pdfRenderer = 0 /\ LoadFromPath("ok", RenderDocPages)
    \/ \E p \in 0..(RenderDocPages - 1) : Bind(1, p, MaxTasks)
    \/ \E t \in tasks : RenderOpen(t)
    \/ \E t \in tasks : RenderDraw(t)
    \/ \E t \in tasks : RenderCheck(t)
    \/ \E t \in tasks : RenderPut(t)
    \/ \E t \in tasks : RenderBind(t)
    \/ TouchDown
    \/ PointerDown({TRUE})
    \/ TouchMove({TRUE}, {TRUE}, {<<2, 1>>})
    \/ inProgress /\ PointerUp({TRUE})
    \/ intercepting /\ TouchUp

SpecZoomRender == InitAndroid /\ [][NextZoomRender]_vars

\* ------------------------------------------------------ SpecRenderFail
\* Pages of one document bound to NumHolders holders, with up to MaxTasks
\* renders in flight, any of which may fail while it has its page open.
NextRenderFail ==
    \/ pdfRenderer = 0 /\ LoadFromPath("ok", RenderDocPages)
    \/ \E h \in Holders, p \in 0..(RenderDocPages - 1) : Bind(h, p, MaxTasks)
    \/ \E t \in tasks : RenderOpen(t)
    \/ \E t \in tasks : RenderDraw(t)
    \/ \E t \in tasks : RenderFail(t)
    \/ \E t \in tasks : RenderCheck(t)
    \/ \E t \in tasks : RenderPut(t)
    \/ \E t \in tasks : RenderBind(t)

SpecRenderFail == InitAndroid /\ [][NextRenderFail]_vars

\* ------------------------------------------------------------ SpecRaster
\* renderPage's bitmap size for pages of several shapes (in points: Letter
\* upright and turned, A4, a long receipt, a wide banner) at viewer scales
\* from 0.5 to 4.0 and initialScale options from 0.5 to 3.0.
PageSizes == {<<612, 792>>, <<792, 612>>, <<595, 842>>, <<600, 2100>>,
              <<2400, 600>>}

RasterScales == {MinScale, ScaleUnit, 3 * MinScale, 2 * ScaleUnit,
                 3 * ScaleUnit, MaxScale}

RasterInitialScales == {MinScale, ScaleUnit, 2 * ScaleUnit, 3 * ScaleUnit}

NextRaster ==
    \E page \in PageSizes, sf \in RasterScales, is \in RasterInitialScales :
        RenderSize(page, sf, is)

SpecRaster == InitAndroid /\ [][NextRaster]_vars

\* --------------------------------------------------------- SpecLoadOrder
\* loadPDF calls on one viewer, by path and by url, for documents of
\* 1..NavPages pages that all exist; downloads end in any order.
Documents == 1..NavPages

NextLoadOrder ==
    \/ \E n \in Documents : LoadFromPath("ok", n)
    \/ \E n \in Documents : LoadFromUrl(n)
    \/ \E n \in Documents : DownloadDone(n)

SpecLoadOrder == InitAndroid /\ [][NextLoadOrder]_vars

\* --------------------------------------------------------- SpecPinchEdge
\* Two-finger pinches whose deltas carry the scale next to and past the
\* bounds: x3.994 and x2 towards 4.0, x0.125 towards 0.5.
EdgeDeltas == {<<1997, 500>>, <<2, 1>>, <<1, 8>>}

NextPinchEdge ==
    \/ TouchDown
    \/ PointerDown({TRUE})
    \/ TouchMove({TRUE}, {TRUE}, EdgeDeltas)
    \/ PointerUp({TRUE})
    \/ TouchUp

SpecPinchEdge == InitAndroid /\ [][NextPinchEdge]_vars

\* ------------------------------------------------------------- SpecPages
\* One viewer of one implementation: loads by path and by url of documents
\* of 1..NavPages pages, loads that fail, reloads, goToPage with page
\* numbers inside and outside the document, and scrolls.
NextPages ==
    \/ platform = "android" /\ \E n \in Documents, outcome \in LoadOutcomes :
                                   LoadFromPath(outcome, n)
    \/ platform = "android" /\ \E n \in Documents : LoadFromUrl(n)
    \/ platform = "android" /\ \E n \in Documents : DownloadDone(n)
    \/ platform = "android" /\ \E n \in Documents : DownloadFailed(n)
    \/ platform = "android" /\ \E page \in PageNumbers : GoToPage(page)
    \/ platform = "android" /\ \E page \in 0..(NavPages - 1) : OnScrolled(page)
    \/ platform = "web" /\ \E scale \in InitialScales : WebCreate(scale)
    \/ platform = "web" /\ WebLoadPDF
    \/ platform = "web" /\ \E page \in PageNumbers : WebGoToPage(page)
    \/ platform = "ios" /\ \E scale \in InitialScales : IosCreate(scale)
    \/ platform = "ios" /\ \E n \in 0..NavPages : IosLoadPDF(n)
    \/ platform = "ios" /\ \E n \in 0..NavPages : IosLoadDone(n)
    \/ platform = "ios" /\ \E page \in PageNumbers : IosGoToPage(page)
    \/ platform = "ios" /\ \E page \in 0..(NavPages - 1) : IosNativeScroll(page)

SpecPages == InitNav /\ [][NextPages]_vars

\* ---------------------------------------------------------- SpecPageView
\* The touch stream of one page view: one or two fingers, moves between
\* the Points, gestures the view declines or an ancestor takes over, while
\* binds and renders change the bitmap it shows.
NextPageView ==
    \/ \E curr \in Points : PageTouch("DOWN", curr)
    \/ \E curr \in Points : PageTouch("POINTER_DOWN", curr)
    \/ \E curr \in Points : PageTouch("MOVE", curr)
    \/ PageTouch("POINTER_UP", pageView.last)
    \/ PageTouch("UP", pageView.last)
    \/ PageTouch("CANCEL", pageView.last)
    \/ \E bm \in Bitmaps \cup {NoDrawable} : PageBind(bm)
    \/ \E bm \in Bitmaps : PageRendered(bm)

SpecPageView == InitAndroid /\ [][NextPageView]_vars

\* ---------------------------------------------------------- SpecPanPinch
\* One gesture after another over a page view: a first finger that the page
\* view takes or declines, pans that make it hold disallow-intercept, scrolls
\* the RecyclerView takes over, and a second finger with pinch movement.
\* The touch points are far enough apart to classify a pan in either
\* direction.
NextPanPinch ==
    \/ \E curr \in {p \in Points : p[2] # 8} :
           fingers = 0
           /\ ViewerTouch("DOWN", 1, 1, FALSE, FALSE, <<1, 1>>, curr, FALSE)
    \/ fingers = 1
       /\ ViewerTouch("POINTER_DOWN", 2, 2, TRUE, FALSE, <<1, 1>>,
                      pageView.last, FALSE)
    \/ \E curr \in {p \in Points : p[2] # 8}, rvScrolls \in BOOLEAN :
           fingers = 1
           /\ ViewerTouch("MOVE", 1, 1, FALSE, FALSE, <<1, 1>>, curr, rvScrolls)
    \/ \E d \in {<<2, 1>>} :
           fingers = 2
           /\ ViewerTouch("MOVE", 2, 2, TRUE, TRUE, d, pageView.last, FALSE)
    \/ fingers = 2
       /\ ViewerTouch("POINTER_UP", 2, 1, FALSE, FALSE, <<1, 1>>,
                      pageView.last, FALSE)
    \/ fingers = 1
       /\ ViewerTouch("UP", 1, 0, FALSE, FALSE, <<1, 1>>, pageView.last, FALSE)
    \/ \E bm \in Bitmaps : fingers = 0 /\ PageBind(bm)
    \/ \E curr \in {p \in Points : p[2] # 8} : SecondTapDown(curr)

SpecPanPinch == InitAndroid /\ [][NextPanPinch]_vars

\* ---------------------------------------------------------- SpecZoomLoad
\* Loads and reloads of documents with and without pages and of files that
\* PdfRenderer rejects, between and in the middle of pinch gestures that
\* halve and double the scale and end by a lifted finger, a span that
\* narrows, or a cancel.
NextZoomLoad ==
    \/ \E outcome \in {"ok", "corrupt"}, n \in {0, RenderDocPages} :
           LoadFromPath(outcome, n)
    \/ TouchDown
    \/ PointerDown({TRUE})
    \/ TouchMove(BOOLEAN, {TRUE}, {<<1, 2>>, <<2, 1>>})
    \/ PointerUp({FALSE})
    \/ TouchUp
    \/ TouchCancel

SpecZoomLoad == InitAndroid /\ [][NextZoomLoad]_vars

\* ---------------------------------------------------------- the overlay
\* overlay.container is the field overlayContainer (0 is null, else the
\* FrameLayout created by the n-th showOverlay; overlayWebView is set and
\* cleared with it), overlay.attached the overlay containers that are
\* children of the viewer, overlay.ending the containers whose fade-out
\* runs with an end action that has not run yet.

\* hideOverlay(animated): nothing without a referenced container; animated,
\* the fade-out starts and its end action is left for later; otherwise the
\* container is removed and both fields are cleared at once.  fabButton is
\* never assigned, so the lines about it do nothing.
hideOverlay(o, animated) ==
    IF o.container = 0 THEN o
    ELSE IF animated
         THEN [o EXCEPT !.ending = @ \cup {o.container}]
         ELSE [o EXCEPT !.attached = @ \ {o.container}, !.container = 0]

\* showOverlay: store the position, hideOverlay(animated = false), create a
\* container, add it to the viewer and fade it in
ShowOverlay(position) ==
    LET hidden == hideOverlay(overlay, FALSE)
        c == overlay.created + 1 IN
    /\ registered /\ ~destroyed
    /\ overlay.created < MaxOverlays
    /\ overlay' = [hidden EXCEPT !.container = c,
                                 !.attached = @ \cup {c},
                                 !.created = c,
                                 !.position = position]
    /\ emitted' = <<>>
    /\ lastCall' = NoCall
    /\ UNCHANGED <<gestureVars, documentVars, renderVars, destroyed,
                   registered, putLog, pinchVars, peerVars, downloads,
                   lastRequested, pageView, raster>>

\* The plugin's hideOverlay: animation defaults to true
HideOverlay(animated) ==
    /\ registered /\ ~destroyed
    /\ overlay' = hideOverlay(overlay, animated)
    /\ emitted' = <<>>
    /\ lastCall' = NoCall
    /\ UNCHANGED <<gestureVars, documentVars, renderVars, destroyed,
                   registered, putLog, pinchVars, peerVars, downloads,
                   lastRequested, pageView, raster>>

\* The fade-out of container c ends after 300 ms: its end action removes c
\* from the viewer and clears overlayContainer and overlayWebView, whatever
\* they refer to by then.  Removing a view does not cancel its animator.
HideAnimationEnd(c) ==
    /\ c \in overlay.ending
    /\ overlay' = [overlay EXCEPT !.ending = @ \ {c},
                                  !.attached = @ \ {c},
                                  !.container = 0]
    /\ emitted' = <<>>
    /\ lastCall' = NoCall
    /\ UNCHANGED <<gestureVars, documentVars, renderVars, destroyed,
                   registered, putLog, pinchVars, peerVars, downloads,
                   lastRequested, pageView, raster>>

\* ---------------------------------------------------------- SpecOverlay
\* Overlays shown at either edge, hidden with and without the animation,
\* and fade-outs that end before or after the next call.
NextOverlay ==
    \/ \E position \in {"top", "bottom"} : ShowOverlay(position)
    \/ \E animated \in BOOLEAN : HideOverlay(animated)
    \/ \E c \in 1..MaxOverlays : HideAnimationEnd(c)

SpecOverlay == InitAndroid /\ [][NextOverlay]_vars

\* =============================================================== claims

\* C1: after any sequence of pinch scale deltas from the initial scale 1.0,
\* the committed scale (getState().zoom and every zoomChanged payload) lies
\* within [MinScale, MaxScale].
C1_ScaleWithinBounds ==
    /\ getState.zoom \in MinScale..MaxScale
    /\ lastZoom # NoZoom => lastZoom \in MinScale..MaxScale

\* C1 witness: a pinch whose deltas multiply past the maximum was clamped
C1_Witness ==
    /\ pinchMoves > 0
    /\ pinchRatio[1] > 2 * pinchRatio[2]
    /\ baseScaleFactor > ScaleUnit
    /\ scaleFactor = MaxScale
    /\ lastZoom = MaxScale

\* C2 (as claimed): once the last pointer is lifted or cancelled the touch
\* interceptor is idle: isScaling is false and pointerCount is 0.
C2_IdleAfterLastPointerUp ==
    fingers = 0 => (isScaling = FALSE /\ pointerCount = 0)

\* C3 (as claimed): once destroy has run, a render that was in flight
\* changes no bitmap cache and binds no bitmap to a page view.
C3_NoRenderEffectAfterDestroy ==
    [][(destroyed /\ tasks' # tasks)
           => (adapters' = adapters /\ holderImage' = holderImage)]_vars

\* C4: whatever renders and zoom settles have happened, no bitmap cache
\* holds more than 5 entries.
C4_CacheWithinCapacity ==
    \A a \in DOMAIN adapters : Cardinality(adapters[a].bitmapCache) <= 5

\* C4 witness: after a zoom settle the cache filled up again and a render
\* found it full
C4_Witness ==
    /\ pinchEnded
    /\ pdfAdapter # 0
    /\ Cardinality(adapters[pdfAdapter].bitmapCache) = 5
    /\ \E t \in tasks : t.stage = "evicting"

\* The pages of the viewer's cache were put in the order putLog.pages
CacheTracked ==
    /\ pdfAdapter # 0
    /\ putLog.adapter = pdfAdapter
    /\ putLog.pages # Untracked

\* The position of page p in the insertion log
PutIndex(p) == CHOOSE i \in DOMAIN putLog.pages : putLog.pages[i] = p

\* C5 (as claimed): when an insertion evicts, every evicted entry was
\* inserted before every entry that stays.
C5_EvictsOldestInserted ==
    [][\A t \in tasks :
          (CacheTracked /\ t.stage = "evicting" /\ t.adapter = pdfAdapter
             /\ adapters' # adapters)
          => LET before == CacheKeys(adapters[pdfAdapter].bitmapCache)
                 after == CacheKeys(adapters'[pdfAdapter].bitmapCache)
             IN \A e \in before \ after, k \in after :
                    PutIndex(e) < PutIndex(k)]_vars

\* Six distinct pages were put one after another into the empty cache
SixInserted == CacheTracked /\ Len(putLog.pages) = 6

WentToPage == lastCall.op = "goToPage" /\ lastCall.viewer

\* C7: goToPage(p) with 1 <= p <= totalPages on a viewer that has a
\* document, immediately followed by getState, reports currentPage = p.
C7_GoToPageRoundTrip ==
    (WentToPage /\ lastCall.pre.totalPages > 0
       /\ lastCall.page >= 1 /\ lastCall.page <= lastCall.pre.totalPages)
        => lastCall.post.currentPage = lastCall.page

\* C7 witness: from page 1 of a loaded document to its last page
C7_Witness ==
    /\ WentToPage
    /\ lastCall.pre.totalPages = NavPages
    /\ lastCall.pre.currentPage = 1
    /\ lastCall.page = NavPages
    /\ platform = "android"

\* C8 (as claimed): goToPage(p) with p < 1 or p > totalPages leaves the
\* state as it was, resolves and emits no pageChanged.
C8_OutOfRangeIgnored ==
    (WentToPage /\ (lastCall.page < 1 \/ lastCall.page > lastCall.pre.totalPages))
        => /\ lastCall.post = lastCall.pre
           /\ lastCall.resolved
           /\ \A i \in DOMAIN lastCall.events :
                  lastCall.events[i][1] # "pageChanged"

\* s * r clamped to [MinScale, MaxScale] equals z, without rounding
ClampedProductIs(z, s, r) ==
    IF s * r[1] < MinScale * r[2] THEN z = MinScale
    ELSE IF s * r[1] > MaxScale * r[2] THEN z = MaxScale
    ELSE z * r[2] = s * r[1]

\* C9 (as claimed): when a pinch that started at scale s ends, the last
\* zoomChanged payload equals s times the product of its deltas, clamped,
\* however the product is split into deltas.
C9_FinalZoomIsClampedProduct ==
    (pinchEnded /\ lastZoom # NoZoom)
        => ClampedProductIs(lastZoom, baseScaleFactor, pinchRatio)

\* C10 (as claimed): every resetZoom on an existing viewer leaves the zoom
\* at 1.0 and emits exactly one event, zoomChanged{zoom: 1.0}.
C10_ResetZoomEmitsOnce ==
    (lastCall.op = "resetZoom" /\ lastCall.viewer)
        => /\ lastCall.post.zoom = ScaleUnit
           /\ lastCall.events = <<<<"zoomChanged", ScaleUnit>>>>

\* C11 (as claimed): an operation addressed to a viewerId the plugin does
\* not know (never created, or destroyed) fails and changes no state.
C11_UnknownViewerRejected ==
    (lastCall.op \notin {"none", "create"} /\ ~lastCall.viewer)
        => /\ ~lastCall.resolved
           /\ lastCall.post = lastCall.pre

\* C12 (as claimed): after a load attempt that fails (no new document
\* handle results from it), whatever was loaded before, getState reports
\* isLoading = false and totalPages = 0.
C12_FailedLoadReportsNoPages ==
    [][(lastCall'.op = "loadPDF" /\ Len(handles') = Len(handles))
           => (lastCall'.post.isLoading = FALSE
               /\ lastCall'.post.totalPages = 0)]_vars

\* C13 (as claimed): once destroy has run, every document handle the
\* viewer opened has been closed, and none was closed a second time.
C13_HandlesClosedExactlyOnce ==
    lastCall.op = "destroy"
        => \A i \in DOMAIN handles :
               handles[i].closed /\ ~handles[i].closedAgain

\* C14: at every moment at most one of the document handles the viewer
\* created is open; a load closes the prior handle before the new one
\* becomes the viewer's handle.
C14_AtMostOneOpenHandle ==
    Cardinality({i \in DOMAIN handles : ~handles[i].closed}) <= 1

\* C14 witness: a second document is loaded and the first handle is closed
C14_Witness ==
    /\ Len(handles) = 2
    /\ handles[1].closed /\ ~handles[2].closed
    /\ pdfRenderer = 2
    /\ lastCall.op = "loadPDF"

\* C15 (as claimed): when loadPDF has loaded a document, the viewer is on
\* page initialPage if that option is given and within 1..totalPages, and
\* on page 1 if it is not given (0 here).
C15_LoadOpensInitialPage ==
    [][(lastCall'.op = "loadPDF" /\ Len(handles') > Len(handles))
           => /\ lastCall'.page \in 1..lastCall'.post.totalPages
                    => lastCall'.post.currentPage = lastCall'.page
              /\ lastCall'.page = 0 => lastCall'.post.currentPage = 1]_vars

\* C20 (as claimed): no operation uses a closed document handle: the
\* adapter attached to the page list (whose getItemCount every layout pass
\* calls) is never backed by a closed handle, and no render calls openPage
\* on a closed handle.
C20_NoUseAfterClose ==
    [][/\ pdfAdapter' # 0 => ~handles'[adapters'[pdfAdapter'].renderer].closed
       /\ \A t \in tasks :
              (t.stage = "launched" /\ t \notin tasks')
                  => ~handles[adapters[t.adapter].renderer].closed]_vars

\* A render coroutine completes in this step and binds its bitmap to holder h
BoundByRender(h) ==
    \E t \in tasks : /\ t.stage = "decoded" /\ t \notin tasks'
                     /\ t.holder = h
                     /\ holderImage'[h] = t.bitmap
                     /\ holderImage'[h] # holderImage[h]

\* C16 (as claimed): a render that was in flight when the scale settled
\* to a new value never binds its bitmap to a page view: whatever a
\* completing render binds was rendered at the adapter's current scale.
C16_StaleRenderDiscarded ==
    [][\A h \in Holders :
           BoundByRender(h)
               => holderImage'[h].scale = adapters[pdfAdapter].scaleFactor]_vars

\* After a scale settle, every render has completed, no finger is down and
\* the visible page is bound again
SettledAndIdle ==
    /\ pinchEnded /\ fingers = 0 /\ ~inProgress
    /\ tasks = {}
    /\ pdfAdapter # 0
    /\ \E h \in Holders : holderPos[h] # NO_POSITION

\* C17 (as claimed): once a scale settle has cleared the cache and all
\* renders have completed, every cached bitmap and every bitmap bound to a
\* visible page was rendered at the current scale factor.
C17_OnlyCurrentScaleBitmaps ==
    SettledAndIdle
        => /\ \A b \in adapters[pdfAdapter].bitmapCache :
                  b.scale = adapters[pdfAdapter].scaleFactor
           /\ \A h \in Holders :
                  (holderPos[h] # NO_POSITION /\ holderImage[h] # NoBitmap)
                      => holderImage[h].scale = adapters[pdfAdapter].scaleFactor

\* The renders that are between openPage and page.close() on handle i
RendersInside(i) ==
    {t \in tasks : adapters[t.adapter].renderer = i /\ t.stage = "opened"}

\* C18 (as claimed): renders that share a document handle are serialized:
\* at most one of them is between openPage and page.close(), and a page of
\* the handle is open only while a render is there, so that every render,
\* also one that failed, has closed its page before a later one opens one.
C18_RendersSerialized ==
    \A i \in DOMAIN handles :
        /\ Cardinality(RendersInside(i)) <= 1
        /\ handles[i].pageOpen => RendersInside(i) # {}

\* C19 (as claimed): a render that failed does not keep a later render
\* from succeeding: openPage on the open document never throws, so no
\* launched render is lost before it has opened its page.
C19_FailureDoesNotBlockOthers ==
    [][\A t \in tasks :
           (t.stage = "launched" /\ ~handles[adapters[t.adapter].renderer].closed)
               => (t \in tasks' \/ Advance(t, "opened") = tasks')]_vars

\* The document the viewer displays: the one behind pdfRenderer
Displayed == IF pdfRenderer = 0 THEN NoDocument ELSE handles[pdfRenderer].pageCount

\* C21 (as claimed): once every load has completed, the document displayed
\* is the one the latest loadPDF call asked for, whatever order the
\* downloads ended in.
C21_LastRequestedDisplayed ==
    (downloads = {} /\ lastRequested # NoDocument) => Displayed = lastRequested

\* A step in which the touch listener of the RecyclerView handled an event
TouchStep == gestureVars' # gestureVars \/ pinchMoves' # pinchMoves

\* The step ends a pinch: the detector calls onScaleEnd
PinchEnds == inProgress /\ ~inProgress'

\* C22: a touch event that does not end a pinch (a scale delta among them)
\* leaves every adapter, cache, binding and render as it is and only moves
\* the visual transform; the event that ends a pinch clears the cache once,
\* unbinds the holders for a re-render at the settled scale, and the visual
\* transform is the identity by then.
C22_RerenderOnlyAtPinchEnd ==
    [][TouchStep =>
         IF PinchEnds
         THEN /\ scaleX' = ScaleUnit
              /\ pdfAdapter # 0 =>
                   /\ adapters'[pdfAdapter].bitmapCache = EmptyCache
                   /\ adapters'[pdfAdapter].scaleFactor = scaleFactor'
                   /\ \A h \in Holders : holderPos'[h] = NO_POSITION
              /\ tasks' = tasks
         ELSE /\ adapters' = adapters
              /\ holderPos' = holderPos
              /\ tasks' = tasks
              /\ (inProgress' /\ scaleFactor' # scaleFactor) =>
                     scaleX' = DivScale(scaleFactor', baseScaleFactor')]_vars

\* C22 witness: a pinch that doubled the scale has just ended over a page
\* that was displayed and cached at the old scale; the cache is empty, the
\* holder awaits its rebind and the transform is the identity
C22_Witness ==
    /\ pinchEnded /\ ~inProgress /\ pinchMoves >= 1
    /\ scaleFactor = 2 * ScaleUnit
    /\ scaleX = ScaleUnit
    /\ pdfAdapter # 0
    /\ adapters[pdfAdapter].scaleFactor = 2 * ScaleUnit
    /\ adapters[pdfAdapter].bitmapCache = EmptyCache
    /\ holderPos[1] = NO_POSITION
    /\ holderImage[1].scale = ScaleUnit
    /\ tasks = {}

\* The holder of render t is still bound to the position t was launched for
StillBound(t) == t.adapter = pdfAdapter /\ holderPos[t.holder] = t.position

\* C23: when a decoded bitmap reaches the UI thread, it is set on its
\* holder if that holder is still bound to the bitmap's page index, and
\* otherwise no holder's content changes.
C23_DecodedBoundOnlyIfStillBound ==
    [][\A t \in tasks :
         (t.stage = "decoded" /\ t \notin tasks') =>
             IF StillBound(t)
             THEN holderImage' = [holderImage EXCEPT ![t.holder] = t.bitmap]
             ELSE holderImage' = holderImage]_vars

\* C23 witness: holder 1 shows the bitmap a render delivered for the page
\* it is bound to, while the render launched for holder 2 has decoded its
\* bitmap after the holder was recycled
C23_Witness ==
    /\ holderPos[1] = 0 /\ holderImage[1].page = 0
    /\ \E t \in tasks : /\ t.stage = "decoded" /\ t.holder = 2
                        /\ t.position = 1 /\ t.adapter = pdfAdapter
                        /\ holderPos[2] = NO_POSITION

\* The step is onScale consuming the detector's scale factor d
ConsumesDelta(d) ==
    /\ pinchMoves' = pinchMoves + 1
    /\ pinchRatio' = <<pinchRatio[1] * d[1], pinchRatio[2] * d[2]>>

\* C24 (as claimed): a pinch delta whose candidate scale lies above 4.0
\* leaves the viewer at exactly 4.0 and 4.0 is the zoom last reported; one
\* whose candidate lies below 0.5 leaves it at exactly 0.5, reported alike.
C24_ClampedToBound ==
    [][\A d \in EdgeDeltas :
         ConsumesDelta(d) =>
           /\ MulDelta(scaleFactor, d) > MaxScale =>
                (scaleFactor' = MaxScale /\ lastZoom' = MaxScale)
           /\ MulDelta(scaleFactor, d) < MinScale =>
                (scaleFactor' = MinScale /\ lastZoom' = MinScale)]_vars

\* The bitmap has the proportions of its page, to within a pixel each way
AspectKept ==
    Abs(raster.width * raster.pageHeight - raster.height * raster.pageWidth)
        <= raster.pageWidth + raster.pageHeight

\* C25 (as claimed): every bitmap renderPage sizes is at most 8192 pixels
\* wide and at most 8192 pixels high, and keeps the proportions of its page.
C25_BitmapWithinMaxDimension ==
    raster # NoRaster =>
        /\ raster.width <= maxWidth
        /\ raster.height <= maxWidth
        /\ AspectKept

\* C26 (as claimed): a scroll that changes the current page of the Android
\* viewer emits pageChanged with the new page number, counted from 1.
C26_ScrollPageChangeEmits ==
    [][(platform = "android" /\ lastCall'.op = "none"
          /\ currentPageIndex' # currentPageIndex)
         => emitted' = <<<<"pageChanged", currentPageIndex' + 1>>>>]_vars

\* What getState reports on the platform of this run
ReportedState ==
    CASE platform = "android" -> getState
      [] platform = "web" -> web.state
      [] platform = "ios" -> IosState(ios)

\* C27: whenever getState reports a document (totalPages > 0), the
\* currentPage it reports lies in 1..totalPages.
C27_CurrentPageWithinDocument ==
    ReportedState.totalPages > 0 =>
        /\ ReportedState.currentPage >= 1
        /\ ReportedState.currentPage <= ReportedState.totalPages

\* C27 witness: the Android viewer showed the last page of a NavPages-page
\* document when a one-page document was loaded over it
C27_Witness ==
    /\ platform = "android"
    /\ lastCall.op = "loadPDF"
    /\ lastCall.pre.totalPages = NavPages
    /\ lastCall.pre.currentPage = NavPages
    /\ lastCall.post.totalPages = 1
    /\ getState.currentPage = 1

\* C28: after touch-up, pointer-up or cancel the page view is in mode NONE
\* with no scroll direction, and the last thing it told its parent is
\* requestDisallowInterceptTouchEvent(false).
C28_ReleaseOnUp ==
    pageView.event \in {"UP", "POINTER_UP", "CANCEL"} =>
        /\ pageView.mode = "NONE"
        /\ pageView.scrollDirection = "NONE"
        /\ ~pageView.disallow

\* C28 witness: the second finger of a two-finger gesture has just been
\* lifted; the view was in mode ZOOM with the claim held since pointer-down
C28_Witness ==
    /\ pageView.event = "POINTER_UP"
    /\ pageView.pointers = 1
    /\ pageView.mode = "NONE"
    /\ ~pageView.disallow

\* The content of view v is at the vertical edge that a finger movement of
\* deltaY scrolls toward: its top when the finger moves down, its bottom
\* when the finger moves up
AtEdgeAhead(v, deltaY) ==
    \/ deltaY > 0 /\ v.transY >= 0
    \/ deltaY < 0 /\ v.transY + getImageHeight(v) <= ViewHeight

\* C29: a move of a pan whose direction is classified keeps the gesture
\* (disallow-intercept requested, content translated, event handled) when
\* the direction is horizontal, or vertical with the content not at the
\* edge ahead; a vertical move with the content at the edge ahead releases
\* the gesture and translates nothing. A vertical pan step is one whose
\* finger moved vertically.
C29_PanOwnership ==
    [][LET v == pageView
           w == pageView'
           deltaY == w.last[2] - v.last[2]
       IN (/\ w.event = "MOVE" /\ w.last # v.last
           /\ v.mode = "DRAG" /\ shouldAllowPan(v)
           /\ w.scrollDirection # "NONE"
           /\ w.scrollDirection = "VERTICAL" => deltaY # 0)
          => IF \/ w.scrollDirection = "HORIZONTAL"
                \/ ~AtEdgeAhead(v, deltaY)
             THEN w.disallow /\ w.translated /\ w.handled
             ELSE /\ ~w.disallow /\ ~w.translated /\ ~w.handled
                  /\ w.transX = v.transX /\ w.transY = v.transY]_vars

\* C29 witness: a vertical pan over a bitmap taller than the view has
\* scrolled the content off its top edge and holds the gesture
C29_Witness ==
    /\ pageView.event = "MOVE"
    /\ pageView.scrollDirection = "VERTICAL"
    /\ pageView.translated /\ pageView.disallow
    /\ pageView.transY < 0

\* The condition under which the page view pans: zoomed in beyond minScale,
\* or pan enabled over a bitmap larger than the view in either dimension
PanCondition ==
    \/ pageView.scale > pageView.minScale
    \/ /\ pageView.panEnabled
       /\ pageView.drawable # NoDrawable
       /\ \/ pageView.drawable[1] > ViewWidth
          \/ pageView.drawable[2] > ViewHeight

GestureBoundary == {"DOWN", "POINTER_DOWN", "UP", "POINTER_UP", "CANCEL"}

\* C31: within one single-finger pan gesture the scroll direction is
\* classified at most once, at the first pan move whose displacement from
\* the touch-down point exceeds 10 px in either axis, and the classification
\* never changes until the gesture ends. As steps of the page view: a pan
\* move of a still unclassified gesture classifies it exactly if the
\* displacement exceeds the threshold; a classified direction is kept by
\* every step that is not a gesture boundary; and a direction is only ever
\* assigned by such a pan move.
C31_DirectionClassifiedOnce ==
    [][LET v == pageView
           w == pageView'
           dx == Abs(w.last[1] - v.start[1])
           dy == Abs(w.last[2] - v.start[2])
           panMoveStep == /\ w.event = "MOVE" /\ v.mode = "DRAG"
                          /\ v.pointers = 1 /\ shouldAllowPan(v)
       IN /\ (panMoveStep /\ v.scrollDirection = "NONE")
              => (w.scrollDirection # "NONE"
                    <=> (dx > SCROLL_THRESHOLD \/ dy > SCROLL_THRESHOLD))
          /\ (v.scrollDirection # "NONE" /\ w.event \notin GestureBoundary)
              => w.scrollDirection = v.scrollDirection
          /\ (w.scrollDirection # "NONE"
              /\ w.scrollDirection # v.scrollDirection)
              => (panMoveStep /\ v.scrollDirection = "NONE")]_vars

\* A gesture classified horizontal whose finger has since moved to a point
\* that lies further from the touch-down point vertically than horizontally
C31_Witness ==
    /\ pageView.event = "MOVE"
    /\ pageView.mode = "DRAG"
    /\ pageView.scrollDirection = "HORIZONTAL"
    /\ Abs(pageView.last[2] - pageView.start[2])
         > Abs(pageView.last[1] - pageView.start[1])

\* ---------------------------------------------------------------- C32
\* C32: when a second pointer goes down on a gesture that was idle or a pan,
\* a pan in which the page view holds disallow-intercept included, the
\* gesture becomes a pinch-zoom at once: the viewer's zoom tracking starts
\* (pointerCount >= 2, isScaling set) and its listener owns the rest of the
\* gesture, so that the pinch movement that follows reaches the global scale.
C32_SecondPointerStartsPinch ==
    [][(fingers = 1 /\ fingers' = 2 /\ ~intercepting)
         => (pointerCount' >= 2 /\ isScaling' /\ intercepting')]_vars

\* ---------------------------------------------------------------- C33
\* C33: a double-tap on a displayed page toggles the zoom between 1.0x and
\* 2x, and the resulting scale goes the way of a settled pinch: it lies
\* within [minScale, maxScale] and the page adapter re-renders at it.
C33_DoubleTapTogglesZoom ==
    [][(fingers = 0 /\ fingers' = 1 /\ pageView'.doubleTap
        /\ pageView.drawable # NoDrawable)
         => /\ scaleFactor' = (IF scaleFactor = ScaleUnit
                               THEN 2 * ScaleUnit ELSE ScaleUnit)
            /\ scaleFactor' = coerceIn(scaleFactor', MinScale, MaxScale)
            /\ pdfAdapter # 0
                 => adapters'[pdfAdapter].scaleFactor = scaleFactor']_vars

\* ---------------------------------------------------------------- C34
\* A load still has work outstanding: a download on Android, a document
\* being read on iOS; loadPDF of the web implementation starts none
LoadPending ==
    CASE platform = "android" -> downloads # {}
      [] platform = "ios" -> ios.loads # {}
      [] platform = "web" -> FALSE

\* C34: every load attempt, by url or by path, successful or failed, alone
\* or overlapping another, leaves the viewer with isLoading = false: once a
\* loadPDF call on a viewer has returned and no load has work outstanding
\* any more, getState reports isLoading = false.
C34_LoadEndsNotLoading ==
    [][((lastCall'.op = "loadPDF" /\ lastCall'.viewer) \/ LoadPending)
        /\ ~LoadPending'
         => ~ReportedState'.isLoading]_vars

\* ---------------------------------------------------------------- C35
\* Reading the events of one handler in order, from a state in which a
\* gestureStart is unmatched (open) or not: "broken" if a gestureStart meets
\* an unmatched one or a gestureEnd meets none, else whether one is unmatched
\* at the end
RECURSIVE GestureOpenAfter(_, _)
GestureOpenAfter(out, open) ==
    IF out = <<>>
    THEN (IF open THEN "open" ELSE "closed")
    ELSE IF Head(out)[1] = "gestureStart"
    THEN (IF open THEN "broken" ELSE GestureOpenAfter(Tail(out), TRUE))
    ELSE IF Head(out)[1] = "gestureEnd"
    THEN (IF open THEN GestureOpenAfter(Tail(out), FALSE) ELSE "broken")
    ELSE GestureOpenAfter(Tail(out), open)

\* C35: gestureStart and gestureEnd alternate, beginning with gestureStart,
\* and a gestureStart gets its gestureEnd when the pinch ends or is
\* cancelled. The viewer starts with no gesture and no event; in every step
\* the events emitted continue the alternation from whether a gesture was in
\* progress before, leave a gestureStart unmatched exactly if a gesture is
\* in progress after, and none is in progress once fewer than two pointers
\* are down.
C35_GestureEventsAlternate ==
    [][/\ GestureOpenAfter(emitted', inProgress)
            = (IF inProgress' THEN "open" ELSE "closed")
       /\ fingers' < 2 => ~inProgress']_vars

\* C35 witness: a pinch that moved the scale is cancelled with both fingers
\* down, and the cancel emits its gestureEnd
C35_Witness ==
    /\ fingers = 0
    /\ pinchEnded /\ pinchMoves >= 1
    /\ ~inProgress
    /\ \E i \in DOMAIN emitted : emitted[i][1] = "gestureEnd"

\* ---------------------------------------------------------------- C36
\* C36: whenever a document is loaded and no pinch gesture is in progress,
\* the scale the page adapter renders at equals the global scale factor that
\* getState reports, after any sequence of loads, reloads and pinches.
C36_AdapterScaleIsGlobalScale ==
    (pdfAdapter # 0 /\ ~inProgress)
        => adapters[pdfAdapter].scaleFactor = getState.zoom

\* C36 witness: a second document was loaded and a pinch that changed the
\* scale has ended on it
C36_Witness ==
    /\ pdfAdapter = 2
    /\ pinchEnded /\ ~inProgress /\ fingers = 0
    /\ getState.zoom # ScaleUnit
    /\ adapters[pdfAdapter].scaleFactor = getState.zoom
    /\ adapters[1].scaleFactor # getState.zoom

\* C37: the overlay reference is non-null exactly when an overlay container
\* is a child of the viewer, at most one overlay container is a child of the
\* viewer, and a hideOverlay without animation leaves none attached -- also
\* when showOverlay came while an animated hideOverlay had not finished.
C37_OverlayReferenceMatchesAttached ==
    /\ (overlay.container # 0) <=> (overlay.attached # {})
    /\ Cardinality(overlay.attached) <= 1
    /\ hideOverlay(overlay, FALSE).attached = {}

====
